---- MODULE Spec2Model ----
(***************************************************************************)
(* Transport Server of the quant-k bridge (bridge/base_bridge.py):         *)
(* JSON-RPC 2.0, one JSON document per line, over TCP connections served   *)
(* by one asyncio event loop; synchronous handlers run in the loop's       *)
(* default thread pool.                                                    *)
(*                                                                         *)
(* A request line is modelled by what json.loads makes of it (its shape    *)
(* and, for an object, its jsonrpc / method / id members); its content is  *)
(* chosen when the server reads it.  A response line is the dictionary     *)
(* that _success_response / _error_response serialise.                     *)
(***************************************************************************)
EXTENDS Integers, Sequences, FiniteSets, TLC

\* ------------------------------------------------------------------ bounds
NConn == 2          \* connections a run may accept
MaxLines == 3       \* request lines the server reads in one run

Conns == 1..NConn

\* ------------------------------------------------------- values on the wire
Absent == "<absent>"        \* a key the JSON object does not have
Null == "<null>"            \* JSON null / Python None
Unhashable == "<list>"      \* a non-empty JSON array or object used as method
EmptyStr == ""              \* the empty string (falsy)

Versions == {Absent, "1.0", "2.0"}
MethodVals == {Absent, EmptyStr, "nosuch", Unhashable, "ping", "shutdown", "calc", "page"}
IdVals == {Absent, "7"}

\* what arrives between two newlines
Lines ==
    [shape : {"toolong", "badutf8", "badjson", "scalar"}]
    \cup [shape : {"object"}, jsonrpc : Versions, method : MethodVals, id : IdVals]

\* one line of each kind the connection loop treats differently
CoreLines ==
    [shape : {"badjson", "scalar"}]
    \cup [shape : {"object"}, jsonrpc : {"2.0"},
          method : {"nosuch", "ping", "shutdown", "calc", "page"}, id : {"7"}]

\* JSON-RPC error codes used by _handle_request
ParseError == -32700
InvalidRequest == -32600
\* the unknown method reported with the invalid-request code
MethodNotFound_AsInvalid == InvalidRequest
MethodNotFound == -32601
InternalError == -32603

\* ---------------------------------------------------------------- handlers
\* the methods a subclass constructor registers: a synchronous handler (as
\* in factor_bridge.py) and a coroutine handler (as in scraper_bridge.py)
DomainNames == {"calc", "page"}
HandlerOf(name) == IF name = "calc" THEN "h_sync" ELSE "h_async"

\* asyncio.iscoroutinefunction(handler)
IsCoroutineFunction(h) == h = "h_async"

\* every handler called inline, as if run_in_executor were not used
RunsOn_Inline(h) == "loop"

\* where _handle_request runs the handler: awaited inline on the event loop,
\* or in the default executor (run_in_executor(None, handler, params))
RunsOn(h) == IF IsCoroutineFunction(h) THEN "loop" ELSE "executor"

\* workers of the default ThreadPoolExecutor: min(32, cpu_count + 4) >= 5
ExecutorWorkers == 5

\* exceptions JsonRpcError(code, message, data) a domain handler may raise
RpcErrors == [kind : {"rpcerr"}, code : {1201}, message : {"unknown factor"},
              data : {Null, "detail"}]

\* what a call of a handler does: return a value, raise JsonRpcError, or
\* raise another Exception
Outcomes(h, registry) ==
    IF h = "_handle_ping"
        THEN {[kind |-> "return",
               value |-> [pong |-> TRUE, methods |-> DOMAIN registry]]}
    ELSE IF h = "_handle_shutdown"
        THEN {[kind |-> "return", value |-> [shutting_down |-> TRUE]]}
    ELSE {[kind |-> "return", value |-> [value |-> "v"]]}
         \cup RpcErrors
         \cup {[kind |-> "raise", message |-> "kaboom"]}

\* ------------------------------------------------------------ the responses
\* a success response that also carries an error member
_success_response_WithError(req_id, result) ==
    [jsonrpc |-> "2.0", id |-> req_id, result |-> result, error |-> Null]

_success_response(req_id, result) ==
    [jsonrpc |-> "2.0", id |-> req_id, result |-> result]

\* the data member never attached
_error_response_NoData(req_id, code, message, data) ==
    [jsonrpc |-> "2.0", id |-> req_id,
     error |-> [code |-> code, message |-> message]]

_error_response(req_id, code, message, data) ==
    [jsonrpc |-> "2.0", id |-> req_id,
     error |-> IF data # Null
                 THEN [code |-> code, message |-> message, data |-> data]
                 ELSE [code |-> code, message |-> message]]

\* dict.get(key) on a parsed JSON object: None for a missing key
Get(request, key) == IF request[key] = Absent THEN Null ELSE request[key]

\* the response to a finished handler call (the try block of _handle_request)
HandlerResponse(req_id, o) ==
    IF o.kind = "return" THEN _success_response(req_id, o.value)
    ELSE IF o.kind = "rpcerr"
        THEN _error_response(req_id, o.code, o.message, o.data)
    ELSE _error_response(req_id, InternalError,
                         <<"Internal error: ", o.message>>, Null)

\* _handle_request up to the dispatch: what the envelope checks decide.
\*   "crash"    an exception leaves _handle_request (or readline)
\*   "reply"    an error response, no handler
\*   "dispatch" the registered handler is called
Envelope(line, registry) ==
    IF line.shape = "toolong" THEN [act |-> "crash", why |-> "ValueError"]
    ELSE IF line.shape = "badutf8"
        THEN [act |-> "crash", why |-> "UnicodeDecodeError"]
    ELSE IF line.shape = "badjson"
        THEN [act |-> "reply",
              resp |-> _error_response(Null, ParseError, <<"Parse error">>, Null)]
    ELSE IF line.shape = "scalar"
        THEN [act |-> "crash", why |-> "AttributeError"]
    ELSE IF Get(line, "jsonrpc") # "2.0"
        THEN [act |-> "reply",
              resp |-> _error_response(Get(line, "id"), InvalidRequest,
                          <<"Invalid Request: jsonrpc must be '2.0'">>, Null)]
    ELSE IF Get(line, "method") \in {Null, EmptyStr}
        THEN [act |-> "reply",
              resp |-> _error_response(Get(line, "id"), InvalidRequest,
                          <<"Invalid Request: method required">>, Null)]
    ELSE IF Get(line, "method") = Unhashable
        THEN [act |-> "crash", why |-> "TypeError"]
    ELSE IF Get(line, "method") \notin DOMAIN registry
        THEN [act |-> "reply",
              resp |-> _error_response(Get(line, "id"), MethodNotFound,
                          <<"Method not found: ", Get(line, "method")>>, Null)]
    ELSE [act |-> "dispatch", handler |-> registry[Get(line, "method")],
          req_id |-> Get(line, "id")]

\* ------------------------------------------- the factor engine: its data
\* tickers of the market universe the model follows; a ticker is named by
\* its position in the table the data access shim returns
NTickers == 3

\* a table cell: NaN, or a number
NaN == <<>>
Num(v) == <<v>>

\* FACTOR_DEFINITIONS: the catalog, name -> category
FACTOR_DEFINITIONS ==
    [f \in {"PER", "PBR", "PSR", "PCR", "EV_EBITDA", "MOM_1M", "MOM_3M",
            "MOM_6M", "MOM_12M", "ROE", "ROA", "GP_MARGIN", "OP_MARGIN",
            "SIZE", "SIZE_INV", "VOL_20D"} |->
        IF f \in {"PER", "PBR", "PSR", "PCR", "EV_EBITDA"} THEN "value"
        ELSE IF f \in {"MOM_1M", "MOM_3M", "MOM_6M", "MOM_12M"} THEN "momentum"
        ELSE IF f \in {"ROE", "ROA", "GP_MARGIN", "OP_MARGIN"}
            THEN "profitability"
        ELSE IF f \in {"SIZE", "SIZE_INV"} THEN "size"
        ELSE "volatility"]

\* a market check that lets a third market through
Markets_WithNasdaq == {"KOSPI", "KOSDAQ", "NASDAQ"}

\* the markets calculate_factor accepts
Markets == {"KOSPI", "KOSDAQ"}

\* columns of stock.get_market_fundamental that the engine reads
FundamentalColumns == {"PER", "PBR", "EPS", "BPS"}

\* rows of the fundamental table: one in which PER and PBR vary, one in
\* which EPS and BPS vary
ValueRows == [PER : {NaN, Num(-1), Num(0), Num(1), Num(2)}, PBR : {Num(1)},
              EPS : {Num(1)}, BPS : {Num(1)}]
EquityRows == [PER : {Num(1)}, PBR : {Num(1)},
               EPS : {NaN, Num(1), Num(2)},
               BPS : {Num(-1), Num(0), Num(1)}]

\* all sequences over S of length 0..n
RECURSIVE SeqsUpTo(_, _)
SeqsUpTo(S, n) ==
    IF n = 0 THEN {<<>>}
    ELSE LET shorter == SeqsUpTo(S, n - 1)
         IN shorter \cup {Append(t, x) : t \in shorter, x \in S}

\* stock.get_market_fundamental(date, market): empty, or a row per ticker
FundamentalTables ==
    SeqsUpTo(ValueRows, NTickers) \cup SeqsUpTo(EquityRows, NTickers)

\* per ticker of stock.get_market_ticker_list: the return over the period in
\* percent, or NaN when get_market_ohlcv raised or gave fewer than `period`
\* rows
MomentumTables == SeqsUpTo({NaN, Num(0), Num(1), Num(3)}, NTickers)

\* ------------------------------------- the factor engine: the computations
RECURSIVE SumSeq(_)
SumSeq(s) == IF s = <<>> THEN 0 ELSE Head(s) + SumSeq(Tail(s))

\* the numbers of the cells of a column that are not NaN
Valid(cells) ==
    LET kept == SelectSeq(cells, LAMBDA c : c # NaN)
    IN [i \in DOMAIN kept |-> kept[i][1]]

\* Series.quantile(q / 100) of an ascending sequence, linear interpolation,
\* in hundredths of the unit of the series
Quantile(sorted, q) ==
    LET h == q * (Len(sorted) - 1)
        lo == (h \div 100) + 1
        frac == h % 100
    IN IF frac = 0 THEN 100 * sorted[lo]
       ELSE 100 * sorted[lo] + frac * (sorted[lo + 1] - sorted[lo])

\* Series.clip(lower, upper) of one number, in hundredths
Clip(x, lower, upper) ==
    IF 100 * x < lower THEN lower ELSE IF 100 * x > upper THEN upper ELSE 100 * x

\* a normalised score (c - mean) / std, kept exact: with m points of sum S
\* and sum of squares SS it is dev / sqrt(m * spread / (m - 1)), where
\* dev = m * c - S and spread = m * SS - S * S
Score(dev, m, spread) == <<[dev |-> dev, m |-> m, spread |-> spread]>>

\* the literal 0.0
Zero == <<[dev |-> 0, m |-> 0, spread |-> 0]>>

\* pd.Series([0.0] * len(series)): a new series with the default RangeIndex
ZeroSeries(series) ==
    [index |-> "range", values |-> [i \in DOMAIN series.values |-> Zero]]

\* _zscore: winsorise to the [1st, 99th] percentile band, then normalise.
\* A series is [index, values]: index "ticker" (labelled by the tickers) or
\* "range" (RangeIndex)
_zscore(series) ==
    LET valid == Valid(series.values)
    IN IF valid = <<>> THEN series
       ELSE
        LET sorted == SortSeq(valid, LAMBDA a, b : a < b)
            lower == Quantile(sorted, 1)
            upper == Quantile(sorted, 99)
            clipped == [i \in DOMAIN series.values |->
                          IF series.values[i] = NaN THEN NaN
                          ELSE Num(Clip(series.values[i][1], lower, upper))]
            cs == Valid(clipped)
            m == Len(cs)
            S == SumSeq(cs)
            SS == SumSeq([i \in DOMAIN cs |-> cs[i] * cs[i]])
            spread == m * SS - S * S
        IN IF spread = 0 \/ m < 2
              THEN ZeroSeries(series)
              ELSE [index |-> series.index,
                    values |-> [i \in DOMAIN clipped |->
                        IF clipped[i] = NaN THEN NaN
                        ELSE Score(m * clipped[i][1] - S, m, spread)]]

\* raise JsonRpcError(code, message)
JsonRpcError(code, message) ==
    [kind |-> "rpcerr", code |-> code, message |-> message, data |-> Null]

\* pd.DataFrame({"ticker": tickers, "raw_value": raw, "score": score}): the
\* frame's index is the union of the indexes of the two series; when they
\* differ the union has more labels than the ticker array has entries, and
\* the constructor raises ValueError
DataFrame(tickers, raw, score) ==
    IF raw.index # score.index
        THEN [kind |-> "raise",
              message |-> "array length does not match index length"]
        ELSE [kind |-> "frame",
              rows |-> [i \in DOMAIN tickers |->
                          [ticker |-> tickers[i], raw_value |-> raw.values[i],
                           score |-> score.values[i]]]]

\* every row kept
dropna_KeepAll(rows) == rows

\* DataFrame.dropna(): the rows without a NaN
dropna(rows) ==
    SelectSeq(rows, LAMBDA r : r.raw_value # NaN /\ r.score # NaN)

\* values.replace(0, nan), then x if x > 0 else nan
PositiveOrNaN(c) == IF c # NaN /\ c[1] > 0 THEN c ELSE NaN

\* 1 / values; the unit of the result is one half, which leaves the
\* normalised score unchanged and keeps the numbers whole
Reciprocal(c) == IF c = NaN THEN NaN ELSE Num(2 \div c[1])

_calculate_value_factor(factor, fund) ==
    IF fund = <<>> THEN JsonRpcError(1004, "No data available")
    ELSE IF factor \notin FundamentalColumns
        THEN JsonRpcError(1201, "Factor not available in fundamental data")
    ELSE
        LET column == [index |-> "ticker",
                       values |-> [i \in DOMAIN fund |-> fund[i][factor]]]
            scores == [index |-> "ticker",
                       values |-> [i \in DOMAIN fund |->
                            Reciprocal(PositiveOrNaN(column.values[i]))]]
            result == DataFrame([i \in DOMAIN fund |-> i], column,
                                _zscore(scores))
        IN IF result.kind = "raise" THEN result
           ELSE [kind |-> "return", value |-> dropna(result.rows)]

_calculate_momentum_factor(factor, mom) ==
    IF factor \notin {"MOM_1M", "MOM_3M", "MOM_6M", "MOM_12M"}
        THEN JsonRpcError(1201, "Unknown momentum factor")
    ELSE
        LET momentum_scores ==
                SelectSeq([i \in DOMAIN mom |->
                              [ticker |-> i, raw_value |-> mom[i]]],
                          LAMBDA r : r.raw_value # NaN)
        IN IF momentum_scores = <<>>
              THEN JsonRpcError(1004, "No momentum data available")
           ELSE
            LET raw == [index |-> "range",
                        values |-> [i \in DOMAIN momentum_scores |->
                                      momentum_scores[i].raw_value]]
                z == _zscore(raw)
            IN [kind |-> "return",
                value |-> [i \in DOMAIN momentum_scores |->
                    [ticker |-> momentum_scores[i].ticker,
                     raw_value |-> momentum_scores[i].raw_value,
                     \* df["score"] = z aligns z on the frame's RangeIndex
                     score |-> IF z.index = raw.index THEN z.values[i]
                               ELSE NaN]]]

\* every window one month long
period_map_OneMonth(factor) == 20

\* period_map: the window of a momentum factor, in bars
period_map(factor) ==
    CASE factor = "MOM_1M" -> 20
      [] factor = "MOM_3M" -> 60
      [] factor = "MOM_6M" -> 120
      [] factor = "MOM_12M" -> 240

\* tickers[:100]: the tickers the loop goes through
LeadingTickers == 100

\* the trading days among the period * 2 calendar days before the date,
\* five in every seven
WindowDays(period) == (period * 2 * 5) \div 7

\* stock.get_market_ohlcv(start_date, date, ticker) on what the exchange has
\* for the ticker: it raises, or returns the closing prices of the trading
\* days from start_date on, the latest last
get_market_ohlcv(history, period) ==
    IF history.kind = "raise" THEN history
    ELSE LET have == Len(history.close)
             from == IF have > WindowDays(period)
                        THEN have - WindowDays(period) + 1 ELSE 1
         IN [kind |-> "frame", close |-> SubSeq(history.close, from, have)]

\* (close.iloc[-1] / close.iloc[-period] - 1) * 100, in whole percent
Returns(close, period) ==
    (close[Len(close)] * 100) \div close[Len(close) - period + 1] - 100

\* the loop of _calculate_momentum_factor over the leading tickers: per
\* ticker the return over the window, or NaN for a ticker it passes over
\* because the fetch raised or gave fewer bars than the window
MomentumColumn(factor, universe) ==
    LET period == period_map(factor)
        n == IF Len(universe.tickers) < LeadingTickers
                THEN Len(universe.tickers) ELSE LeadingTickers
    IN [i \in 1..n |->
          LET ohlcv == get_market_ohlcv(universe.ohlcv[universe.tickers[i]],
                                        period)
          IN IF ohlcv.kind = "raise" THEN NaN
             ELSE IF Len(ohlcv.close) >= period
                 THEN Num(Returns(ohlcv.close, period))
             ELSE NaN]

_calculate_profitability_factor(factor, fund) ==
    IF fund = <<>> THEN JsonRpcError(1004, "No data available")
    ELSE IF factor = "ROE" THEN
        \* (EPS / BPS) * 100, here in units of 100 percent, which leaves the
        \* normalised score unchanged
        LET valid_mask == [i \in DOMAIN fund |->
                             /\ fund[i].BPS # NaN
                             /\ fund[i].BPS[1] > 0
                             /\ fund[i].EPS # NaN]
            roe_values == [index |-> "ticker",
                           values |-> [i \in DOMAIN fund |->
                               IF valid_mask[i]
                                 THEN Num(fund[i].EPS[1] \div fund[i].BPS[1])
                                 ELSE NaN]]
            result == DataFrame([i \in DOMAIN fund |-> i], roe_values,
                                _zscore(roe_values))
        IN IF result.kind = "raise" THEN result
           ELSE [kind |-> "return", value |-> dropna(result.rows)]
    ELSE IF factor \in {"ROA", "GP_MARGIN", "OP_MARGIN"}
        THEN JsonRpcError(1201, "Factor is not yet fully implemented")
    ELSE JsonRpcError(1201, "Unknown profitability factor")

\* the computation calculate_factor runs on a cache miss, on the data the
\* shim returns
ComputeFactor(factor, data) ==
    LET category == FACTOR_DEFINITIONS[factor]
    IN IF category = "value" THEN _calculate_value_factor(factor, data.fund)
       ELSE IF category = "momentum"
           THEN _calculate_momentum_factor(factor, data.mom)
       ELSE IF category = "profitability"
           THEN _calculate_profitability_factor(factor, data.fund)
       ELSE JsonRpcError(1201, "Factor category not yet implemented")

\* df.set_index("ticker")["score"].to_dict()
ScoresOf(rows) ==
    [t \in {rows[i].ticker : i \in DOMAIN rows} |->
        rows[CHOOSE i \in DOMAIN rows : rows[i].ticker = t].score]

\* the dict calculate_factor returns
FactorResult(params, rows, cached) ==
    [kind |-> "return",
     value |-> [factor |-> params.factor, date |-> params.date,
                market |-> params.market, scores |-> ScoresOf(rows),
                cached |-> cached, count |-> Len(rows)]]

\* ------------------------------------------- the factor engine: the cache
\* _get_cache_path: "{CACHE_DIR}/{factor}_{market}_{date}.parquet". No
\* catalog name followed by "_" and a market is a prefix of another such
\* string, so that the path names the triple
_get_cache_path(factor, market, date) == <<factor, market, date>>

\* hours in one tick of the model's clock
TickHours == 12

\* no file ever taken as valid
_is_cache_valid_Never(fs, cache_path, clock) == FALSE

\* _is_cache_valid: the file exists and age_hours < 24
_is_cache_valid(fs, cache_path, clock) ==
    /\ cache_path \in DOMAIN fs
    /\ (clock - fs[cache_path].mtime) * TickHours < 24

\* a file as its writers leave it: two parts, each missing (<<>>) or holding
\* <<rows>>, the part of the frame some writer put there
Complete(file) == file.parts[1] # <<>> /\ file.parts[1] = file.parts[2]

\* pd.read_parquet(cache_path): the frame, or an error on a file that is
\* not one writer's whole output
read_parquet(file) ==
    IF Complete(file) THEN [kind |-> "return", value |-> file.parts[1][1]]
    ELSE [kind |-> "raise", message |-> "ArrowInvalid"]


\* ------------------- the factor engine: operations built on calculate_factor
\* an empty dict
EmptyDict == [k \in {} |-> 0]

\* the members of a list
Members(list) == {list[i] : i \in DOMAIN list}

RECURSIVE SumOver(_, _)
SumOver(d, keys) ==
    IF keys = {} THEN 0
    ELSE LET k == CHOOSE x \in keys : TRUE
         IN d[k] + SumOver(d, keys \ {k})

\* calculate_composite's weights: equal weights 1.0 / len(factors) per
\* distinct factor when none are given, then every weight divided by the sum
\* of all. A normalised weight is the fraction <<numerator, denominator>>
NormalizeWeights(factors, weights) ==
    IF DOMAIN weights = {}
        THEN [kind |-> "return",
              value |-> [f \in Members(factors) |->
                            <<1, Cardinality(Members(factors))>>]]
    ELSE LET total_weight == SumOver(weights, DOMAIN weights)
         IN IF total_weight = 0
               THEN [kind |-> "raise", message |-> "ZeroDivisionError"]
               ELSE [kind |-> "return",
                     value |-> [k \in DOMAIN weights |->
                                   <<weights[k], total_weight>>]]

\* all_scores[ticker][factor] = score for every score of a result
Collect(all_scores, factor, scores) ==
    LET before == IF factor \in DOMAIN all_scores THEN all_scores[factor]
                  ELSE EmptyDict
    IN (factor :> (scores @@ before)) @@ all_scores

\* a composite that scores every ticker of any result, a missing factor
\* score counting as 0.0
CompositeResult_Imputing(params, weights, all_scores) ==
    LET factors == params.factors
        tickers == UNION {DOMAIN all_scores[f] : f \in DOMAIN all_scores}
    IN IF tickers # {} /\ ~(Members(factors) \subseteq DOMAIN weights)
          THEN [kind |-> "raise", message |-> "KeyError"]
       ELSE [kind |-> "return",
             value |-> [factors |-> factors, weights |-> weights,
                        date |-> params.date, market |-> params.market,
                        composite_scores |->
                            [k \in tickers |-> [i \in DOMAIN factors |->
                                <<IF k \in DOMAIN all_scores[factors[i]]
                                     THEN all_scores[factors[i]][k]
                                     ELSE Zero,
                                  weights[factors[i]]>>]],
                        count |-> Cardinality(tickers)]]

\* the dict calculate_composite returns: a composite score for every ticker
\* that has as many factor scores as the request lists factors, kept as the
\* terms <<score, weight>> of its weighted sum
CompositeResult(params, weights, all_scores) ==
    LET factors == params.factors
        tickers == UNION {DOMAIN all_scores[f] : f \in DOMAIN all_scores}
        full == {k \in tickers :
                    Cardinality({f \in DOMAIN all_scores :
                                    k \in DOMAIN all_scores[f]})
                        = Len(factors)}
    IN IF full # {} /\ ~(Members(factors) \subseteq DOMAIN weights)
          THEN [kind |-> "raise", message |-> "KeyError"]
       ELSE [kind |-> "return",
             value |-> [factors |-> factors, weights |-> weights,
                        date |-> params.date, market |-> params.market,
                        composite_scores |->
                            [k \in full |-> [i \in DOMAIN factors |->
                                <<all_scores[factors[i]][k],
                                  weights[factors[i]]>>]],
                        count |-> Cardinality(full)]]

\* round(score, 4): 0.0 stays 0.0, any other score becomes its decimal
\* rounding
Round4(score) == IF score = Zero THEN Zero ELSE <<"round4", score>>

\* the scores of one result compare as their deviations do
Higher(a, b) == a[1].dev > b[1].dev

\* a sort by ascending score
SortedItems_Ascending(scores) ==
    LET n == Cardinality(DOMAIN scores)
        place(k) == 1 + Cardinality({j \in DOMAIN scores :
                        \/ Higher(scores[k], scores[j])
                        \/ scores[j] = scores[k] /\ j < k})
    IN [i \in 1..n |-> CHOOSE k \in DOMAIN scores : place(k) = i]

\* sorted(scores.items(), key=score, reverse=True): a stable sort, so that
\* equal scores keep the order of the result, which is that of the tickers
SortedItems(scores) ==
    LET n == Cardinality(DOMAIN scores)
        place(k) == 1 + Cardinality({j \in DOMAIN scores :
                        \/ Higher(scores[j], scores[k])
                        \/ scores[j] = scores[k] /\ j < k})
    IN [i \in 1..n |-> CHOOSE k \in DOMAIN scores : place(k) = i]

\* the dict rank_by_factor returns. The name of a ticker is what
\* get_market_ticker_name gives for it, or the ticker when that raises
RankResult(params, scores) ==
    LET sorted_items == SortedItems(scores)
        shown == IF params.top_n < Len(sorted_items) THEN params.top_n
                 ELSE Len(sorted_items)
    IN [kind |-> "return",
        value |-> [factor |-> params.factor, date |-> params.date,
                   market |-> params.market,
                   rankings |-> [i \in 1..shown |->
                       [rank |-> i, ticker |-> sorted_items[i],
                        name |-> sorted_items[i],
                        score |-> Round4(scores[sorted_items[i]])]]]]

\* the dict get_factor_exposure returns
ExposureResult(params, exposures) ==
    [kind |-> "return",
     value |-> [ticker |-> params.ticker, date |-> params.date,
                exposures |-> exposures]]

\* an exposure for every factor whose call returned, 0.0 for a ticker the
\* result does not hold
Expose_Always(exposures, factor, ticker, scores) ==
    (factor :> IF ticker \in DOMAIN scores THEN Round4(scores[ticker])
               ELSE Zero) @@ exposures

\* exposures[factor] = round(result["scores"][ticker], 4) when the ticker is
\* in the scores of the result
Expose(exposures, factor, ticker, scores) ==
    IF ticker \in DOMAIN scores
        THEN (factor :> Round4(scores[ticker])) @@ exposures
        ELSE exposures

\* no ticker given: None, or an empty value
NoTicker == 0

\* a refresh that lists every factor it has called
RefreshResult_All(params, refreshed) ==
    [kind |-> "return",
     value |-> [market |-> params.market, date |-> params.date,
                refreshed |-> params.factors,
                count |-> Len(params.factors)]]

\* the dict refresh_cache returns
RefreshResult(params, refreshed) ==
    [kind |-> "return",
     value |-> [market |-> params.market, date |-> params.date,
                refreshed |-> refreshed, count |-> Len(refreshed)]]

\* list(self.FACTOR_DEFINITIONS.keys())
CatalogKeys ==
    <<"PER", "PBR", "PSR", "PCR", "EV_EBITDA", "MOM_1M", "MOM_3M", "MOM_6M",
      "MOM_12M", "ROE", "ROA", "GP_MARGIN", "OP_MARGIN", "SIZE", "SIZE_INV",
      "VOL_20D">>

\* ------------------------------------------------- the screener: the DSL
\* Body of a value that is computed once
With(value, Body(_)) == CHOOSE r \in {Body(v) : v \in {value}} : TRUE

\* A text is a Python str, written as the sequence of its characters. The
\* Hangul syllables of the aliases and units are written by their romanised
\* names: JO, EOK and MAN are the units of 10^12, 10^8 and 10^4.
T_PER == <<"P", "E", "R">>

T_PBR == <<"P", "B", "R">>

T_EPS == <<"E", "P", "S">>

T_BPS == <<"B", "P", "S">>

T_ROE == <<"R", "O", "E">>

T_DIV == <<"D", "I", "V">>

T_DPS == <<"D", "P", "S">>

T_MARKET_CAP == <<"M", "A", "R", "K", "E", "T", "_", "C", "A", "P">>

T_name == <<"n", "a", "m", "e">>

\* the Korean names of factors and the columns they stand for
FACTOR_ALIASES ==
    (<<"SI", "CHONG">> :> T_MARKET_CAP)
        @@ (<<"SI", "GA", "CHONG", "AEK">> :> T_MARKET_CAP)
        @@ (<<"BAE", "DANG", "RYUL">> :> T_DIV)
        @@ (<<"BAE", "DANG", "SU", "IK", "RYUL">> :> T_DIV)
        @@ (<<"JA", "GI", "JA", "BON", "I", "IK", "RYUL">> :> T_ROE)

\* the operators in the order parse_condition looks for them
OperatorOrder_ShortestFirst ==
    << <<"<">>, <<">">>, <<"<", "=">>, <<">", "=">>, <<"=", "=">>,
       <<"!", "=">> >>

OperatorOrder ==
    << <<"<", "=">>, <<">", "=">>, <<"=", "=">>, <<"!", "=">>, <<"<">>,
       <<">">> >>

\* a float, kept as the decimal number m * 10^e it stands for: <<m, e>>, with
\* m not a multiple of 10 unless it is 0
RECURSIVE Dec(_, _)
Dec(m, e) ==
    IF m = 0 THEN <<0, 0>>
    ELSE IF m % 10 = 0 THEN Dec(m \div 10, e + 1)
    ELSE <<m, e>>

Times(a, b) == Dec(a[1] * b[1], a[2] + b[2])

\* the units in the order of the dict, with their multipliers
UnitOrder == <<"JO", "EOK", "MAN", "%">>

UNIT_MULTIPLIERS ==
    ("JO" :> Dec(1, 12)) @@ ("EOK" :> Dec(1, 8)) @@ ("MAN" :> Dec(1, 4))
        @@ ("%" :> Dec(1, 0))

\* sub in text
Contains(text, sub) ==
    \E i \in 1..(Len(text) - Len(sub) + 1) :
        SubSeq(text, i, i + Len(sub) - 1) = sub

\* text.split(sep): the pieces between the occurrences of sep, found from
\* the left without overlap
RECURSIVE Split(_, _)
Split(text, sep) ==
    IF ~Contains(text, sep) THEN <<text>>
    ELSE LET i == CHOOSE k \in 1..(Len(text) - Len(sep) + 1) :
                    /\ SubSeq(text, k, k + Len(sep) - 1) = sep
                    /\ \A j \in 1..(k - 1) :
                          SubSeq(text, j, j + Len(sep) - 1) # sep
         IN <<SubSeq(text, 1, i - 1)>>
                \o Split(SubSeq(text, i + Len(sep), Len(text)), sep)

\* text.strip()
RECURSIVE Strip(_)
Strip(text) ==
    IF text = <<>> THEN text
    ELSE IF Head(text) = " " THEN Strip(Tail(text))
    ELSE IF text[Len(text)] = " " THEN Strip(SubSeq(text, 1, Len(text) - 1))
    ELSE text

Digits == {"0", "1", "2", "3", "4", "5", "6", "7", "8", "9"}

DigitValue ==
    [d \in Digits |-> CHOOSE v \in 0..9 :
        <<"0", "1", "2", "3", "4", "5", "6", "7", "8", "9">>[v + 1] = d]

RECURSIVE DigitsValue(_)
DigitsValue(text) ==
    IF text = <<>> THEN 0
    ELSE 10 * DigitsValue(SubSeq(text, 1, Len(text) - 1))
            + DigitValue[text[Len(text)]]

\* float(text) for decimal literals: blanks around, an optional sign,
\* digits with at most one point and at least one digit; anything else is
\* a ValueError
Float(text) ==
    LET t == Strip(text)
        signed == t # <<>> /\ Head(t) \in {"-", "+"}
        body == IF signed THEN Tail(t) ELSE t
        points == {i \in DOMAIN body : body[i] = "."}
        digits == SelectSeq(body, LAMBDA c : c \in Digits)
        decimals == IF points = {} THEN 0
                    ELSE Len(body) - (CHOOSE i \in points : TRUE)
    IN IF \/ digits = <<>>
          \/ Cardinality(points) > 1
          \/ \E i \in DOMAIN body : body[i] \notin Digits \cup {"."}
          THEN [kind |-> "raise", message |-> "ValueError"]
       ELSE [kind |-> "return",
             value |-> Dec((IF signed /\ Head(t) = "-" THEN -1 ELSE 1)
                               * DigitsValue(digits), -decimals)]

\* DSLParser._parse_value: the number before the first unit of the dict the
\* text ends with, times its multiplier; without a unit the number itself
RECURSIVE ParseWithUnits(_, _)
ParseWithUnits(value_str, units) ==
    IF units = <<>>
        THEN LET r == Float(value_str)
             IN IF r.kind = "raise" THEN JsonRpcError(1301, "Invalid value")
                ELSE r
    ELSE IF value_str # <<>> /\ value_str[Len(value_str)] = Head(units)
        THEN LET r == Float(SubSeq(value_str, 1, Len(value_str) - 1))
             IN IF r.kind = "raise" THEN JsonRpcError(1301, "Invalid number")
                ELSE [kind |-> "return",
                      value |-> Times(r.value, UNIT_MULTIPLIERS[Head(units)])]
    ELSE ParseWithUnits(value_str, Tail(units))

_parse_value(value_str) == ParseWithUnits(Strip(value_str), UnitOrder)

\* the first operator of the list that occurs in the condition, if any
FirstOperator(condition, order) ==
    LET found == SelectSeq(order, LAMBDA o : Contains(condition, o))
    IN IF found = <<>> THEN <<>> ELSE <<Head(found)>>

\* DSLParser.parse_condition
parse_condition(raw) ==
    LET condition == Strip(raw)
        operator == FirstOperator(condition, OperatorOrder)
    IN IF operator = <<>>
          THEN JsonRpcError(1301, "No operator found in condition")
       ELSE LET parts == Split(condition, operator[1])
            IN IF Len(parts) # 2
                  THEN JsonRpcError(1301, "Invalid condition format")
               ELSE LET factor_raw == Strip(parts[1])
                        value_raw == Strip(parts[2])
                        factor == IF factor_raw \in DOMAIN FACTOR_ALIASES
                                     THEN FACTOR_ALIASES[factor_raw]
                                     ELSE factor_raw
                        value == _parse_value(value_raw)
                    IN IF value.kind # "return" THEN value
                       ELSE [kind |-> "return",
                             value |-> [factor |-> factor,
                                        operator |-> operator[1],
                                        value |-> value.value]]

\* the conditions of a list parsed in order, up to the first that raises
RECURSIVE ParseAll(_)
ParseAll(conditions) ==
    IF conditions = <<>> THEN [kind |-> "return", value |-> <<>>]
    ELSE With(parse_condition(Head(conditions)), LAMBDA first :
           IF first.kind # "return" THEN first
           ELSE With(ParseAll(Tail(conditions)), LAMBDA rest :
                  IF rest.kind # "return" THEN rest
                  ELSE [kind |-> "return",
                        value |-> <<first.value>> \o rest.value]))

\* ------------------------------------------------ the screener: the table
RECURSIVE Pow10(_)
Pow10(k) == IF k = 0 THEN 1 ELSE 10 * Pow10(k - 1)

\* the number of decimal digits of a positive integer
RECURSIVE NumDigits(_)
NumDigits(n) == IF n < 10 THEN 1 ELSE 1 + NumDigits(n \div 10)

\* a < b for positive decimals: by the place of the leading digit, then by
\* the digits
MagnitudeLess(a, b) ==
    LET la == NumDigits(a[1]) + a[2]
        lb == NumDigits(b[1]) + b[2]
        e == IF a[2] < b[2] THEN a[2] ELSE b[2]
    IN IF la # lb THEN la < lb
       ELSE a[1] * Pow10(a[2] - e) < b[1] * Pow10(b[2] - e)

\* a < b for decimals
Less(a, b) ==
    IF a[1] > 0 /\ b[1] > 0 THEN MagnitudeLess(a, b)
    ELSE IF a[1] < 0 /\ b[1] < 0
        THEN MagnitudeLess(<<-b[1], b[2]>>, <<-a[1], a[2]>>)
    ELSE a[1] < b[1]

\* DSLParser.OPERATORS applied to one cell of a numeric column: every
\* comparison with NaN is false, except != which is true
OPERATORS(operator, cell, value) ==
    IF cell = NaN THEN operator = <<"!", "=">>
    ELSE CASE operator = <<"<", "=">> -> ~Less(value, cell)
           [] operator = <<">", "=">> -> ~Less(cell, value)
           [] operator = <<"<">> -> Less(cell, value)
           [] operator = <<">">> -> Less(value, cell)
           [] operator = <<"=", "=">> -> cell = value
           [] operator = <<"!", "=">> -> cell # value

\* a / b for a decimal a and a positive decimal b, to five decimals of the
\* quotient of the mantissas
Quotient(a, b) ==
    LET sign == IF a[1] < 0 THEN -1 ELSE 1
    IN Dec(sign * ((sign * a[1] * Pow10(5)) \div b[1]), a[2] - b[2] - 5)

\* round(x, 2), halves to even
Round2(x) ==
    IF x[2] >= -2 THEN x
    ELSE LET sign == IF x[1] < 0 THEN -1 ELSE 1
             unit == Pow10(-2 - x[2])
             q == (sign * x[1]) \div unit
             r == (sign * x[1]) % unit
             up == 2 * r > unit \/ (2 * r = unit /\ q % 2 = 1)
         IN Dec(sign * (IF up THEN q + 1 ELSE q), -2)

\* the columns get_market_fundamental returns, and those of them of type int
FundamentalKeys == {T_BPS, T_PER, T_PBR, T_EPS, T_DIV, T_DPS}

IntColumns == {T_BPS, T_EPS, T_DPS, T_MARKET_CAP}

\* the columns of the table _get_market_data returns
Columns == FundamentalKeys \cup {T_MARKET_CAP, T_ROE, T_name}

\* stock.get_market_ticker_name
TickerName(ticker) == <<"N", ticker>>

\* ScreenerBridge._get_market_data: the rows of the fundamental table whose
\* ticker has a market value, in the order of the fundamental table, with
\* the market value, the return on equity and the name added
_get_market_data(data, market) ==
    LET fundamental == data[market].fund
        cap == data[market].cap
        joined == SelectSeq(fundamental,
                            LAMBDA f : \E c \in DOMAIN cap :
                                          cap[c].ticker = f.ticker)
        Row(f) ==
            LET c == CHOOSE c \in DOMAIN cap : cap[c].ticker = f.ticker
                valid_mask == f.cols[T_BPS] # NaN /\ Less(<<0, 0>>, f.cols[T_BPS])
                                /\ f.cols[T_EPS] # NaN
                roe == IF valid_mask
                          THEN Times(Quotient(f.cols[T_EPS], f.cols[T_BPS]),
                                     Dec(100, 0))
                          ELSE NaN
            IN [ticker |-> f.ticker,
                cols |-> f.cols @@ (T_MARKET_CAP :> cap[c].cap)
                            @@ (T_ROE :> roe)
                            @@ (T_name :> TickerName(f.ticker))]
    IN [i \in DOMAIN joined |-> Row(joined[i])]

\* _apply_condition without its mask: every row passes a condition on a
\* number
_apply_condition_Unfiltered(df, factor, operator, value) ==
    IF factor \notin Columns THEN JsonRpcError(1201, "Unknown factor")
    ELSE IF factor = T_name /\ operator = <<"=", "=">>
        THEN [kind |-> "return", value |-> <<>>]
    ELSE IF factor = T_name /\ operator # <<"!", "=">> /\ df # <<>>
        THEN [kind |-> "raise", message |-> "TypeError"]
    ELSE [kind |-> "return", value |-> df]

\* ScreenerBridge._apply_condition: the rows that pass one condition. A
\* comparison of the names with a number is elementwise false for ==, true
\* for != and a TypeError for an ordering of a table that has rows.
_apply_condition(df, factor, operator, value) ==
    IF factor \notin Columns
        THEN JsonRpcError(1201, "Unknown factor")
    ELSE IF factor = T_name
        THEN IF operator = <<"=", "=">>
                THEN [kind |-> "return", value |-> <<>>]
             ELSE IF operator = <<"!", "=">> \/ df = <<>>
                THEN [kind |-> "return", value |-> df]
             ELSE [kind |-> "raise", message |-> "TypeError"]
    ELSE [kind |-> "return",
          value |-> SelectSeq(df, LAMBDA row :
                        OPERATORS(operator, row.cols[factor], value))]

\* the conditions of a list parsed and applied in turn, as the loop of
\* screen does: the parsed conditions and the rows left, or the first error
RECURSIVE ApplyAll(_, _, _)
ApplyAll(conditions, df, parsed) ==
    IF conditions = <<>>
        THEN [kind |-> "return", value |-> [parsed |-> parsed, df |-> df]]
    ELSE With(parse_condition(Head(conditions)), LAMBDA p :
           IF p.kind # "return" THEN p
           ELSE With(_apply_condition(df, p.value.factor, p.value.operator,
                                      p.value.value), LAMBDA rows :
                  IF rows.kind # "return" THEN rows
                  ELSE ApplyAll(Tail(conditions), rows.value,
                                Append(parsed, p.value))))

\* the rows left in the order they had
sort_values_Unsorted(df, by, ascending) == df

\* df.sort_values(by, ascending): by the column, rows of equal value in the
\* order they had, rows without a value last. A row goes to the place after
\* the rows that come before it.
sort_values(df, by, ascending) ==
    LET Key(k) == df[k].cols[by]
        Before(a, b) == IF ascending THEN Less(a, b) ELSE Less(b, a)
        Precedes(j, k) ==
            IF Key(j) = NaN THEN Key(k) = NaN /\ j < k
            ELSE \/ Key(k) = NaN
                 \/ Before(Key(j), Key(k))
                 \/ ~Before(Key(k), Key(j)) /\ j < k
        Place(k) == 1 + Cardinality({j \in DOMAIN df : Precedes(j, k)})
    IN [place \in DOMAIN df |-> df[CHOOSE k \in DOMAIN df : Place(k) = place]]

\* df.head(n)
head(df, n) ==
    IF n >= 0 THEN SubSeq(df, 1, IF n < Len(df) THEN n ELSE Len(df))
    ELSE SubSeq(df, 1, IF Len(df) + n > 0 THEN Len(df) + n ELSE 0)

\* one entry of the results: the ticker, the name and the values that are
\* not missing, floats rounded to two decimals
ResultRow(row) ==
    [ticker |-> row.ticker,
     name |-> row.cols[T_name],
     values |-> [c \in {k \in Columns \ {T_name} : row.cols[k] # NaN} |->
                    IF c \in IntColumns THEN row.cols[c]
                    ELSE Round2(row.cols[c])]]

\* ------------------------------------------------------------------- state
VARIABLES
    methods,    \* self._methods: name -> handler
    server,     \* run(): "init", "serving", "closing" or "draining", "stopped"
    shutdown,   \* self._shutdown_event
    pc,         \* per connection: position of its _handle_client task
    eof,        \* per connection: the peer has closed the connection
    nRead,      \* per connection: lines readline() has returned
    cur,        \* per connection: the request _handle_request is awaiting
    out,        \* per connection: numbers of the requests answered, in order
    lastEx,     \* the exchange completed by the latest step, if any
    upstream,   \* what the data access shim (pykrx) returns at present
    now,        \* the wall clock, in ticks
    files,      \* the cache directory: path -> file
    thr,        \* per worker thread: the calculate_factor call it runs
    op,         \* per worker thread: the operation that makes those calls
    krx,        \* what the exchange returns to the screener, per market
    screens,    \* the screens directory: name -> text of the saved file
    scr,        \* the screener call completed by the latest step, if any
    prices,     \* per market: the ticker list and the daily bars of each ticker
    momentum    \* the momentum computation completed by the latest step, if any

bridgeVars == <<methods, server, shutdown, pc, eof, nRead, cur, out, lastEx>>

engineVars == <<upstream, now, files, thr, op>>

vars == <<methods, server, shutdown, pc, eof, nRead, cur, out, lastEx,
          upstream, now, files, thr, op, krx, screens, scr, prices, momentum>>

screenerVars == <<krx, screens, scr>>

momentumVars == <<prices, momentum>>

connVars == <<pc, eof, nRead, cur, out>>

\* ----------------------------------------------------------------- helpers
\* the event loop is running: between start_server and the return of
\* run_until_complete
LoopRunning == server \in {"serving", "closing", "draining"}

\* a synchronous handler body is executing on the loop thread
LoopBlocked ==
    \E c \in Conns : \E r \in cur[c] :
        r.on = "loop" /\ ~IsCoroutineFunction(r.handler) /\ r.st = "running"

\* the loop can run a callback or resume a task
LoopFree == LoopRunning /\ ~LoopBlocked

\* handler calls occupying a worker thread of the default executor
BusyWorkers ==
    {c \in Conns : \E r \in cur[c] : r.on = "executor" /\ r.st = "running"}

FreeWorker == Cardinality(BusyWorkers) < ExecutorWorkers

\* connection c has a synchronous handler call in progress
SyncRunning(c) ==
    \E r \in cur[c] : ~IsCoroutineFunction(r.handler) /\ r.st = "running"

\* some connection other than c has a synchronous handler call in progress
OtherBlocking(c) == \E d \in Conns \ {c} : SyncRunning(d)

RECURSIVE SumTo(_, _)
SumTo(f, n) == IF n = 0 THEN 0 ELSE f[n] + SumTo(f, n - 1)

\* request lines read so far, over all connections
TotalRead == SumTo(nRead, NConn)

\* writer.write(response): the line goes behind what was written before
StreamWrite(buffer, n) == Append(buffer, n)

\* the handler left running while the loop reads on
AfterDispatch_NoAwait == "read"

\* the loop body awaits _handle_request before it reads the next line
AfterDispatch == "handling"

\* the flag not consulted
LoopCondition_Always(flag) == TRUE

\* the while condition of _handle_client, evaluated at the top of the loop
LoopCondition(flag) == ~flag

\* the idle timeout treated as a disconnect
AfterTimeout_Close == "closed"

\* except asyncio.TimeoutError: continue
AfterTimeout == "check"

\* only JsonRpcError caught
Caught_TypedOnly(o) == o.kind \in {"return", "rpcerr"}

\* the except clauses of _handle_request's try block catch the outcome
\* (JsonRpcError, Exception)
Caught(o) == o.kind \in {"return", "rpcerr", "raise"}

\* one request line and what became of it: resp is empty when no response
\* was written, handler and outcome are empty when no handler was called;
\* overlap tells that a synchronous handler was running for another
\* connection when the handler's result arrived
Exchange(c, n, line, resps, h, o, overlap) ==
    [conn |-> c, seq |-> n, req |-> line, resp |-> resps,
     handler |-> h, outcome |-> o, overlap |-> overlap]

\* --------------------------------------------- the factor engine: state
\* worker threads of the executor that run calculate_factor
NThreads == 2

Threads == 1..NThreads

\* ticks the clock can advance
MaxTicks == 3

\* the shim has nothing to return
NoData == [fund |-> <<>>, mom |-> <<>>]

\* what the shim may return in a check of the computations
Datasets ==
    {[fund |-> f, mom |-> <<>>] : f \in FundamentalTables}
        \cup {[fund |-> <<>>, mom |-> m] : m \in MomentumTables}

\* a fundamental row with the given PER
PerRow(v) == [PER |-> Num(v), PBR |-> Num(1), EPS |-> Num(1), BPS |-> Num(1)]

\* two states of a live market, between which the upstream data moves
LiveData ==
    {[fund |-> <<PerRow(1), PerRow(2), PerRow(0)>>,
      mom |-> <<Num(1), NaN, Num(3)>>],
     [fund |-> <<PerRow(2), PerRow(1), PerRow(2)>>,
      mom |-> <<Num(0), Num(1), Num(3)>>]}

NoParams == [factor |-> "", market |-> "", date |-> "", refresh |-> FALSE]

\* a thread that runs no call
Idle == [pc |-> "idle", params |-> NoParams, df |-> <<>>, outcome |-> {},
         io |-> {}, began |-> 0, ended |-> 0, prev |-> {}]

\* the call of thread record rec ends with outcome o at time clock
Finished(rec, o, clock) ==
    [rec EXCEPT !.pc = "done", !.outcome = {o}, !.ended = clock]

\* the path of the call a thread runs
PathOf(rec) ==
    _get_cache_path(rec.params.factor, rec.params.market, rec.params.date)

NoFiles == [path \in {} |-> 0]

\* a thread that runs none of the operations built on calculate_factor
NoOp == [pc |-> "idle", name |-> "", params |-> NoParams, todo |-> <<>>,
         acc |-> <<>>, outcome |-> {}]

EngineInit(datasets) ==
    /\ upstream \in datasets
    /\ now = 0
    /\ files = NoFiles
    /\ thr = [t \in Threads |-> Idle]
    /\ op = [t \in Threads |-> NoOp]

\* -------------------------------------------------------------------- Init
\* the bridge after __init__
BridgeInit ==
    /\ methods = [n \in {"ping", "shutdown"} |->
                    IF n = "ping" THEN "_handle_ping" ELSE "_handle_shutdown"]
    /\ server = "init"
    /\ shutdown = FALSE
    /\ pc = [c \in Conns |-> "none"]
    /\ eof = [c \in Conns |-> FALSE]
    /\ nRead = [c \in Conns |-> 0]
    /\ cur = [c \in Conns |-> {}]
    /\ out = [c \in Conns |-> <<>>]
    /\ lastEx = {}

\* a row of the fundamental table
FundamentalRow(ticker, bps, per, pbr, eps, div, dps) ==
    [ticker |-> ticker,
     cols |-> (T_BPS :> bps) @@ (T_PER :> per) @@ (T_PBR :> pbr)
                @@ (T_EPS :> eps) @@ (T_DIV :> div) @@ (T_DPS :> dps)]

\* the exchange has nothing to return
NoMarketData ==
    [m \in {"KOSPI", "KOSDAQ"} |-> [fund |-> <<>>, cap |-> <<>>]]

\* the tables of a trading day: a company without equity (B), one without a
\* market value (D), a market value without fundamentals (E), a return on
\* equity of 14.996 (C), and another day on which A earns less
MarketData ==
    {[KOSPI |->
        [fund |-> <<FundamentalRow("A", Dec(1000, 0), Dec(5, 0), Dec(5, -1),
                                   Dec(eps, 0), Dec(25, -1), Dec(50, 0)),
                    FundamentalRow("B", Dec(0, 0), Dec(0, 0), Dec(0, 0),
                                   Dec(-10, 0), Dec(0, 0), Dec(0, 0)),
                    FundamentalRow("C", Dec(25000, 0), Dec(125, -1),
                                   Dec(1, 0), Dec(3749, 0), Dec(1, 0),
                                   Dec(10, 0)),
                    FundamentalRow("D", Dec(500, 0), Dec(8, 0), Dec(2, 0),
                                   Dec(40, 0), Dec(0, 0), Dec(0, 0))>>,
         cap |-> <<[ticker |-> "A", cap |-> Dec(2, 12)],
                   [ticker |-> "B", cap |-> Dec(5, 8)],
                   [ticker |-> "C", cap |-> Dec(3, 10)],
                   [ticker |-> "E", cap |-> Dec(7, 9)]>>],
      KOSDAQ |->
        [fund |-> <<FundamentalRow("K", Dec(800, 0), Dec(30, 0), Dec(3, 0),
                                   Dec(100, 0), Dec(0, 0), Dec(0, 0))>>,
         cap |-> <<[ticker |-> "K", cap |-> Dec(4, 9)]>>]] :
        eps \in {200, 100}}

\* the screener before its first request: no screen is saved
ScreenerInit(data) ==
    /\ krx \in data
    /\ screens = [name \in {} |-> <<>>]
    /\ scr = {}

\* the exchange lists no ticker
NoPrices ==
    [m \in {"KOSPI", "KOSDAQ"} |-> [tickers |-> <<>>, ohlcv |-> <<>>]]

\* the price data before the first momentum computation
MomentumInit(universes) ==
    /\ prices \in universes
    /\ momentum = {}

\* a bridge whose factor engine is not called
Init ==
    /\ BridgeInit
    /\ EngineInit({NoData})
    /\ ScreenerInit({NoMarketData})
    /\ MomentumInit({NoPrices})

\* ----------------------------------------------------------------- actions
\* the registry replaced by the new entry
Register_Clobber(name) ==
    /\ server = "init"
    /\ methods' = (name :> HandlerOf(name))
    /\ UNCHANGED <<engineVars, screenerVars, momentumVars>>
    /\ lastEx' = {}
    /\ UNCHANGED <<server, shutdown, connVars>>

\* register_method(name, handler), called by a subclass constructor
Register(name) ==
    /\ server = "init"
    /\ methods' = (name :> HandlerOf(name)) @@ methods
    /\ UNCHANGED <<engineVars, screenerVars, momentumVars>>
    /\ lastEx' = {}
    /\ UNCHANGED <<server, shutdown, connVars>>

\* run() -> _run_server, once the constructor has registered its methods:
\* start_server binds and listens
Start ==
    /\ server = "init"
    /\ DomainNames \subseteq DOMAIN methods
    /\ server' = "serving"
    /\ UNCHANGED <<engineVars, screenerVars, momentumVars>>
    /\ lastEx' = {}
    /\ UNCHANGED <<methods, shutdown, connVars>>

\* the loop accepts a connection and creates its _handle_client task
Accept(c) ==
    /\ server = "serving"
    /\ ~LoopBlocked
    /\ pc[c] = "none"
    /\ \A d \in Conns : d < c => pc[d] # "none"
    /\ pc' = [pc EXCEPT ![c] = "check"]
    /\ UNCHANGED <<engineVars, screenerVars, momentumVars>>
    /\ lastEx' = {}
    /\ UNCHANGED <<methods, server, shutdown, eof, nRead, cur, out>>

\* the peer closes the connection; the server can notice it only in a read
PeerClose(c) ==
    /\ pc[c] = "read"
    /\ ~eof[c]
    /\ eof' = [eof EXCEPT ![c] = TRUE]
    /\ UNCHANGED <<engineVars, screenerVars, momentumVars>>
    /\ lastEx' = {}
    /\ UNCHANGED <<methods, server, shutdown, pc, nRead, cur, out>>

\* while not self._shutdown_event.is_set(): enter the body (start a read)
\* or leave the loop, which runs the finally block (writer.close())
LoopTop(c) ==
    /\ LoopFree
    /\ pc[c] = "check"
    /\ pc' = [pc EXCEPT ![c] = IF LoopCondition(shutdown) THEN "read" ELSE "closed"]
    /\ UNCHANGED <<engineVars, screenerVars, momentumVars>>
    /\ lastEx' = {}
    /\ UNCHANGED <<methods, server, shutdown, eof, nRead, cur, out>>

\* the peer stays silent for 300 s: wait_for(reader.readline(), timeout=300)
\* raises TimeoutError, and the loop body is left by continue
ReadTimeout(c) ==
    /\ LoopFree
    /\ pc[c] = "read"
    /\ ~eof[c]
    /\ pc' = [pc EXCEPT ![c] = AfterTimeout]
    /\ UNCHANGED <<engineVars, screenerVars, momentumVars>>
    /\ lastEx' = {}
    /\ UNCHANGED <<methods, server, shutdown, eof, nRead, cur, out>>

\* readline() returns b"": break, then the finally block closes the writer
ReadEOF(c) ==
    /\ LoopFree
    /\ pc[c] = "read"
    /\ eof[c]
    /\ pc' = [pc EXCEPT ![c] = "closed"]
    /\ UNCHANGED <<engineVars, screenerVars, momentumVars>>
    /\ lastEx' = {}
    /\ UNCHANGED <<methods, server, shutdown, eof, nRead, cur, out>>

\* the peer sends a line: readline() returns it and _handle_request runs up
\* to its first await
ReadLine(c, line) ==
    /\ LoopFree
    /\ pc[c] = "read"
    /\ ~eof[c]
    /\ TotalRead < MaxLines
    /\ LET e == Envelope(line, methods)
           n == nRead[c] + 1
       IN /\ nRead' = [nRead EXCEPT ![c] = n]
          /\ \/ /\ e.act = "crash"
                /\ pc' = [pc EXCEPT ![c] = "closed"]
                /\ UNCHANGED <<engineVars, screenerVars, momentumVars>>
                /\ lastEx' = {Exchange(c, n, line, {}, {}, {}, FALSE)}
                /\ UNCHANGED <<cur, out>>
             \/ /\ e.act = "reply"
                /\ out' = [out EXCEPT ![c] = StreamWrite(@, n)]
                /\ pc' = [pc EXCEPT ![c] = "check"]
                /\ UNCHANGED <<engineVars, screenerVars, momentumVars>>
                /\ lastEx' = {Exchange(c, n, line, {e.resp}, {}, {}, FALSE)}
                /\ UNCHANGED cur
             \/ /\ e.act = "dispatch"
                /\ RunsOn(e.handler) = "executor" => FreeWorker
                /\ cur' = [cur EXCEPT ![c] = @ \cup
                            {[seq |-> n, line |-> line, handler |-> e.handler,
                              req_id |-> e.req_id, on |-> RunsOn(e.handler),
                              st |-> "running"]}]
                /\ pc' = [pc EXCEPT ![c] = AfterDispatch]
                /\ UNCHANGED <<engineVars, screenerVars, momentumVars>>
                /\ lastEx' = {}
                /\ UNCHANGED out
    /\ UNCHANGED <<methods, server, shutdown, eof>>

\* a synchronous handler runs to its end (in a worker thread)
HandlerRun(c) ==
    \E r \in cur[c] :
        /\ r.st = "running"
        /\ ~IsCoroutineFunction(r.handler)
        /\ cur' = [cur EXCEPT ![c] = (@ \ {r}) \cup {[r EXCEPT !.st = "done"]}]
        /\ shutdown' = (shutdown \/ r.handler = "_handle_shutdown")
        /\ UNCHANGED <<engineVars, screenerVars, momentumVars>>
        /\ lastEx' = {}
        /\ UNCHANGED <<methods, server, pc, eof, nRead, out>>

\* _handle_request gets the outcome o of request r's handler call: the
\* response is built and written and the loop body ends, or the exception
\* leaves _handle_request and _handle_client closes the connection
Finish(c, r, o) ==
    /\ cur' = [cur EXCEPT ![c] = @ \ {r}]
    /\ out' = [out EXCEPT ![c] =
                 IF Caught(o) THEN StreamWrite(@, r.seq) ELSE @]
    /\ pc' = [pc EXCEPT ![c] = IF Caught(o) THEN "check" ELSE "closed"]
    /\ UNCHANGED <<engineVars, screenerVars, momentumVars>>
    /\ lastEx' = {Exchange(c, r.seq, r.line,
                     IF Caught(o) THEN {HandlerResponse(r.req_id, o)} ELSE {},
                     {r.handler}, {o}, OtherBlocking(c))}
    /\ UNCHANGED <<methods, server, shutdown, eof, nRead>>

\* the loop resumes _handle_request with the result of the executor's call
Deliver(c) ==
    \E r \in cur[c] : \E o \in Outcomes(r.handler, methods) :
        /\ LoopFree
        /\ r.st = "done"
        /\ Finish(c, r, o)

\* a coroutine handler, awaited inline, finishes
AsyncReturn(c) ==
    \E r \in cur[c] : \E o \in Outcomes(r.handler, methods) :
        /\ LoopFree
        /\ r.st = "running"
        /\ IsCoroutineFunction(r.handler)
        /\ Finish(c, r, o)

\* SIGTERM / SIGINT: _handle_signal sets the shutdown event
Signal ==
    /\ LoopFree
    /\ ~shutdown
    /\ shutdown' = TRUE
    /\ UNCHANGED <<engineVars, screenerVars, momentumVars>>
    /\ lastEx' = {}
    /\ UNCHANGED <<methods, server, connVars>>

\* _run_server wakes from _shutdown_event.wait() and leaves
\* "async with self._server": Server.close() closes the listening socket,
\* and Server.wait_closed() either waits for the open connections
\* ("draining", Python 3.12 and later) or does not ("closing", 3.9 to 3.11)
ServerClose ==
    /\ LoopFree
    /\ server = "serving"
    /\ shutdown
    /\ server' \in {"closing", "draining"}
    /\ UNCHANGED <<engineVars, screenerVars, momentumVars>>
    /\ lastEx' = {}
    /\ UNCHANGED <<methods, shutdown, connVars>>

\* Server.wait_closed() returns, _run_server ends, run() returns
RunReturn ==
    /\ LoopFree
    /\ server \in {"closing", "draining"}
    /\ server = "draining" => \A c \in Conns : pc[c] \in {"none", "closed"}
    /\ server' = "stopped"
    /\ UNCHANGED <<engineVars, screenerVars, momentumVars>>
    /\ lastEx' = {}
    /\ UNCHANGED <<methods, shutdown, connVars>>

\* ------------------------------------------- the factor engine: actions
\* calculate_factor(params) up to its two validations, in thread t
EnterCalculateFactor(t, p) ==
    LET before == IF thr[t].pc = "done"
                     THEN {[params |-> thr[t].params,
                            outcome |-> thr[t].outcome,
                            began |-> thr[t].began,
                            \* when the entry of that call's key was
                            \* written, if there is one
                            written |-> IF PathOf(thr[t]) \in DOMAIN files
                                THEN <<files[PathOf(thr[t])].mtime>>
                                ELSE <<>>]}
                     ELSE {}
        call == [Idle EXCEPT !.params = p, !.began = now, !.prev = before]
    IN thr' = [thr EXCEPT ![t] =
         IF p.factor \notin DOMAIN FACTOR_DEFINITIONS
             THEN Finished(call, JsonRpcError(1201, "Unknown factor"), now)
         ELSE IF p.market \notin Markets
             THEN Finished(call, JsonRpcError(1101, "Invalid market"), now)
         ELSE [call EXCEPT !.pc = "check"]]

\* a thread is free to take the next request
Free(t) == thr[t].pc \in {"idle", "done"} /\ op[t].pc \in {"idle", "done"}

\* a calculate_factor request is given to worker thread t
calculate_factor(t, p) ==
    /\ Free(t)
    /\ (\E u \in Threads \ {t} : ~Free(u))
          => RunsOn("calculate_factor") = "executor"
    /\ EnterCalculateFactor(t, p)
    /\ UNCHANGED <<upstream, now, files, op, bridgeVars, screenerVars,
                 momentumVars>>

\* if not refresh and self._is_cache_valid(cache_path)
CheckCache(t) ==
    /\ thr[t].pc = "check"
    /\ thr' = [thr EXCEPT ![t].pc =
                 IF ~thr[t].params.refresh
                        /\ _is_cache_valid(files, PathOf(thr[t]), now)
                    THEN "read" ELSE "compute",
               ![t].io = IF thr[t].params.refresh THEN @ ELSE @ \cup {"stat"}]
    /\ UNCHANGED <<upstream, now, files, op, bridgeVars, screenerVars,
                 momentumVars>>

\* the cache hit: df = pd.read_parquet(cache_path) and the return
ReadCache(t) ==
    /\ thr[t].pc = "read"
    /\ LET r == read_parquet(files[PathOf(thr[t])])
           rec == [thr[t] EXCEPT !.io = @ \cup {"read"}]
       IN thr' = [thr EXCEPT ![t] =
            IF r.kind = "return"
                THEN Finished(rec, FactorResult(rec.params, r.value, TRUE), now)
                ELSE Finished(rec, r, now)]
    /\ UNCHANGED <<upstream, now, files, op, bridgeVars, screenerVars,
                 momentumVars>>

\* the cache miss: the _calculate_*_factor call, on what the shim returns
Compute(t) ==
    /\ thr[t].pc = "compute"
    /\ LET o == ComputeFactor(thr[t].params.factor, upstream)
           rec == [thr[t] EXCEPT !.io =
                     IF FACTOR_DEFINITIONS[thr[t].params.factor]
                            \in {"value", "momentum", "profitability"}
                        THEN @ \cup {"shim"} ELSE @]
       IN thr' = [thr EXCEPT ![t] =
            IF o.kind = "return"
                THEN [rec EXCEPT !.pc = "open", !.df = o.value]
                ELSE Finished(rec, o, now)]
    /\ UNCHANGED <<upstream, now, files, op, bridgeVars, screenerVars,
                 momentumVars>>

\* df.to_parquet(cache_path) opens the file for writing, which creates or
\* empties it
OpenCache(t) ==
    /\ thr[t].pc = "open"
    /\ files' = (PathOf(thr[t]) :> [mtime |-> now, parts |-> << <<>>, <<>> >>])
                    @@ files
    /\ thr' = [thr EXCEPT ![t].pc = "write1", ![t].io = @ \cup {"write"}]
    /\ UNCHANGED <<upstream, now, op, bridgeVars, screenerVars,
                 momentumVars>>

\* df.to_parquet(cache_path) writes the next part of the file at its own
\* offset; after the last part the file is closed and calculate_factor
\* returns
WriteCache(t) ==
    /\ thr[t].pc \in {"write1", "write2"}
    /\ LET k == IF thr[t].pc = "write1" THEN 1 ELSE 2
       IN /\ files' = [files EXCEPT ![PathOf(thr[t])] =
                         [mtime |-> now,
                          parts |-> [@.parts EXCEPT ![k] = <<thr[t].df>>]]]
          /\ thr' = [thr EXCEPT ![t] =
                IF k = 1 THEN [@ EXCEPT !.pc = "write2"]
                ELSE Finished(@, FactorResult(@.params, @.df, FALSE), now)]
    /\ UNCHANGED <<upstream, now, op, bridgeVars, screenerVars,
                 momentumVars>>

\* time passes
TimePasses ==
    /\ now < MaxTicks
    /\ now' = now + 1
    /\ UNCHANGED <<upstream, files, thr, op, bridgeVars, screenerVars,
                 momentumVars>>

\* the market moves: the shim returns other data from now on
UpstreamChange ==
    /\ upstream' \in LiveData \ {upstream}
    /\ UNCHANGED <<now, files, thr, op, bridgeVars, screenerVars,
                 momentumVars>>

\* the operation of thread t ends with outcome o
Ended(rec, o) == [rec EXCEPT !.pc = "done", !.outcome = {o}]

\* an operation that goes on to call calculate_factor for each of todo
Looping(name, p, todo, acc) ==
    [NoOp EXCEPT !.pc = "loop", !.name = name, !.params = p, !.todo = todo,
                 !.acc = acc]

\* a calculate_composite request is given to worker thread t: the check of
\* the factor list and the weights
calculate_composite(t, p) ==
    /\ Free(t)
    /\ (\E u \in Threads \ {t} : ~Free(u))
          => RunsOn("calculate_composite") = "executor"
    /\ LET rec == Looping("calculate_composite", p, p.factors, EmptyDict)
           weights == NormalizeWeights(p.factors, p.weights)
       IN op' = [op EXCEPT ![t] =
            IF p.factors = <<>>
                THEN Ended(rec, JsonRpcError(1201, "At least one factor required"))
            ELSE IF weights.kind = "raise" THEN Ended(rec, weights)
            ELSE rec]
    /\ UNCHANGED <<upstream, now, files, thr, bridgeVars, screenerVars,
                 momentumVars>>

\* a rank_by_factor request is given to worker thread t
rank_by_factor(t, p) ==
    /\ Free(t)
    /\ (\E u \in Threads \ {t} : ~Free(u))
          => RunsOn("rank_by_factor") = "executor"
    /\ op' = [op EXCEPT ![t] =
                Looping("rank_by_factor", p, <<p.factor>>, EmptyDict)]
    /\ UNCHANGED <<upstream, now, files, thr, bridgeVars, screenerVars,
                 momentumVars>>

\* a refresh_cache request is given to worker thread t
refresh_cache(t, p) ==
    /\ Free(t)
    /\ (\E u \in Threads \ {t} : ~Free(u))
          => RunsOn("refresh_cache") = "executor"
    /\ LET rec == Looping("refresh_cache", p, p.factors, <<>>)
       IN op' = [op EXCEPT ![t] =
            IF p.factors = <<>> THEN Ended(rec, RefreshResult(p, <<>>))
            ELSE rec]
    /\ UNCHANGED <<upstream, now, files, thr, bridgeVars, screenerVars,
                 momentumVars>>

\* a get_factor_exposure request is given to worker thread t
get_factor_exposure(t, p) ==
    /\ Free(t)
    /\ (\E u \in Threads \ {t} : ~Free(u))
          => RunsOn("get_factor_exposure") = "executor"
    /\ LET rec == Looping("get_factor_exposure", p, p.factors, EmptyDict)
       IN op' = [op EXCEPT ![t] =
            IF p.ticker = NoTicker
                THEN Ended(rec, JsonRpcError(1002, "ticker is required"))
            ELSE IF p.factors = <<>>
                THEN Ended(rec, ExposureResult(p, EmptyDict))
            ELSE rec]
    /\ UNCHANGED <<upstream, now, files, thr, bridgeVars, screenerVars,
                 momentumVars>>

\* the operation of thread t calls self.calculate_factor for its next factor
CallCalculateFactor(t) ==
    /\ op[t].pc = "loop"
    /\ EnterCalculateFactor(t,
            [factor |-> Head(op[t].todo),
             market |-> IF op[t].name = "get_factor_exposure" THEN "KOSPI"
                        ELSE op[t].params.market,
             date |-> op[t].params.date,
             refresh |-> (op[t].name = "refresh_cache")])
    /\ op' = [op EXCEPT ![t].pc = "wait"]
    /\ UNCHANGED <<upstream, now, files, bridgeVars, screenerVars,
                 momentumVars>>

\* that call has returned or raised: rank_by_factor and calculate_composite
\* let an exception through, refresh_cache and get_factor_exposure go on to
\* their next factor (except: continue); after the last call the operation
\* returns
CalculateFactorEnds(t) ==
    /\ op[t].pc = "wait"
    /\ thr[t].pc = "done"
    /\ LET rec == op[t]
           factor == Head(rec.todo)
           rest == Tail(rec.todo)
           o == CHOOSE x \in thr[t].outcome : TRUE
       IN op' = [op EXCEPT ![t] =
            IF rec.name = "refresh_cache"
                THEN LET refreshed == IF o.kind = "return"
                                         THEN Append(rec.acc, factor)
                                         ELSE rec.acc
                     IN IF rest = <<>>
                           THEN Ended([rec EXCEPT !.acc = refreshed],
                                      RefreshResult(rec.params, refreshed))
                           ELSE [rec EXCEPT !.pc = "loop", !.todo = rest,
                                            !.acc = refreshed]
            ELSE IF rec.name = "get_factor_exposure"
                THEN LET exposures ==
                            IF o.kind = "return"
                                THEN Expose(rec.acc, factor, rec.params.ticker,
                                            o.value.scores)
                                ELSE rec.acc
                     IN IF rest = <<>>
                           THEN Ended([rec EXCEPT !.acc = exposures],
                                      ExposureResult(rec.params, exposures))
                           ELSE [rec EXCEPT !.pc = "loop", !.todo = rest,
                                            !.acc = exposures]
            ELSE IF o.kind # "return" THEN Ended(rec, o)
            ELSE IF rec.name = "rank_by_factor"
                THEN Ended([rec EXCEPT !.acc = o.value.scores],
                           RankResult(rec.params, o.value.scores))
            ELSE LET all_scores == Collect(rec.acc, factor, o.value.scores)
                 IN IF rest = <<>>
                       THEN Ended([rec EXCEPT !.acc = all_scores],
                                  CompositeResult(rec.params,
                                    NormalizeWeights(rec.params.factors,
                                                     rec.params.weights).value,
                                    all_scores))
                       ELSE [rec EXCEPT !.pc = "loop", !.todo = rest,
                                        !.acc = all_scores]]
    /\ UNCHANGED <<upstream, now, files, thr, bridgeVars, screenerVars,
                 momentumVars>>

\* ---------------------------------------------------------- specifications
\* the server with its connections
Next ==
    \/ \E name \in DomainNames : Register(name)
    \/ Start
    \/ Signal
    \/ ServerClose
    \/ RunReturn
    \/ \E c \in Conns : Accept(c)
    \/ \E c \in Conns : PeerClose(c)
    \/ \E c \in Conns : LoopTop(c)
    \/ \E c \in Conns : ReadTimeout(c)
    \/ \E c \in Conns : ReadEOF(c)
    \/ \E c \in Conns : \E line \in CoreLines : ReadLine(c, line)
    \/ \E c \in Conns : HandlerRun(c)
    \/ \E c \in Conns : Deliver(c)
    \/ \E c \in Conns : AsyncReturn(c)

Spec == Init /\ [][Next]_vars

\* the same server under the assumptions that every handler call ends, the
\* loop runs every task that is ready, and an idle read times out
Fairness ==
    /\ WF_vars(ServerClose)
    /\ WF_vars(RunReturn)
    /\ \A c \in Conns :
        /\ WF_vars(LoopTop(c))
        /\ WF_vars(ReadTimeout(c))
        /\ WF_vars(ReadEOF(c))
        /\ WF_vars(HandlerRun(c))
        /\ WF_vars(Deliver(c))
        /\ WF_vars(AsyncReturn(c))

FairSpec == Spec /\ Fairness

\* one connection, every kind of request line
ReqNext ==
    \/ \E name \in DomainNames : Register(name)
    \/ Start
    \/ Accept(1)
    \/ PeerClose(1)
    \/ LoopTop(1)
    \/ ReadTimeout(1)
    \/ ReadEOF(1)
    \/ \E line \in Lines : ReadLine(1, line)
    \/ HandlerRun(1)
    \/ Deliver(1)
    \/ AsyncReturn(1)
    \/ Signal
    \/ ServerClose
    \/ RunReturn

ReqSpec == Init /\ [][ReqNext]_vars

\* a request line arrives while the shutdown flag is not set
ReadLineBeforeFlag(c, line) == ~shutdown /\ ReadLine(c, line)

\* the server with peers that send nothing once the shutdown flag is set, so
\* that every request in flight was read before the flag was set
DrainNext ==
    \/ \E name \in DomainNames : Register(name)
    \/ Start
    \/ Signal
    \/ ServerClose
    \/ RunReturn
    \/ \E c \in Conns : Accept(c)
    \/ \E c \in Conns : PeerClose(c)
    \/ \E c \in Conns : LoopTop(c)
    \/ \E c \in Conns : ReadTimeout(c)
    \/ \E c \in Conns : ReadEOF(c)
    \/ \E c \in Conns : \E line \in CoreLines : ReadLineBeforeFlag(c, line)
    \/ \E c \in Conns : HandlerRun(c)
    \/ \E c \in Conns : Deliver(c)
    \/ \E c \in Conns : AsyncReturn(c)

DrainSpec == Init /\ [][DrainNext]_vars

\* run() on a bridge whose constructor has made any sequence of
\* register_method calls (BaseBridge itself makes none beyond the built-ins)
StartAny ==
    /\ server = "init"
    /\ server' = "serving"
    /\ UNCHANGED <<engineVars, screenerVars, momentumVars>>
    /\ lastEx' = {}
    /\ UNCHANGED <<methods, shutdown, connVars>>

\* the requests of a health-checking client
RegLines == [shape : {"object"}, jsonrpc : {"2.0"},
             method : {"ping", "calc", "page"}, id : {"7"}]

\* one connection to a bridge with any registry
RegNext ==
    \/ \E name \in DomainNames : Register(name)
    \/ StartAny
    \/ Accept(1)
    \/ LoopTop(1)
    \/ ReadTimeout(1)
    \/ \E line \in RegLines : ReadLine(1, line)
    \/ HandlerRun(1)
    \/ Deliver(1)
    \/ AsyncReturn(1)

RegSpec == Init /\ [][RegNext]_vars

\* the calls of a check of the computations
ScoreParams == [factor : {"PER", "ROE", "MOM_1M", "ROA", "GP_MARGIN",
                          "OP_MARGIN"},
                market : {"KOSPI"},
                date : {"20240102"}, refresh : {FALSE}]

\* the calls of one client
SeqParams == [factor : {"PER", "ALPHA"}, market : {"KOSPI", "NASDAQ"},
              date : {"20240102"}, refresh : BOOLEAN]

\* the calls of clients that ask for the same key
CacheParams == [factor : {"PER"}, market : {"KOSPI"},
                date : {"20240102"}, refresh : BOOLEAN]

\* the first call of a fresh engine
FirstCall(t, p) == thr[t].pc = "idle" /\ calculate_factor(t, p)

\* one cache-miss computation on any data the shim may return
ScoreInit ==
    /\ BridgeInit
    /\ EngineInit(Datasets)
    /\ ScreenerInit({NoMarketData})
    /\ MomentumInit({NoPrices})

ScoreNext ==
    \/ \E p \in ScoreParams : FirstCall(1, p)
    \/ CheckCache(1)
    \/ Compute(1)
    \/ OpenCache(1)
    \/ WriteCache(1)

ScoreSpec == ScoreInit /\ [][ScoreNext]_vars

\* one client calling calculate_factor again and again while time passes
\* and the market moves
SeqInit ==
    /\ BridgeInit
    /\ EngineInit(LiveData)
    /\ ScreenerInit({NoMarketData})
    /\ MomentumInit({NoPrices})

SeqNext ==
    \/ \E p \in SeqParams : calculate_factor(1, p)
    \/ CheckCache(1)
    \/ ReadCache(1)
    \/ Compute(1)
    \/ OpenCache(1)
    \/ WriteCache(1)
    \/ TimePasses
    \/ UpstreamChange

SeqSpec == SeqInit /\ [][SeqNext]_vars

\* calls for one key running in the executor's threads at the same time
CacheNext ==
    \/ \E t \in Threads : \E p \in CacheParams : calculate_factor(t, p)
    \/ \E t \in Threads : CheckCache(t)
    \/ \E t \in Threads : ReadCache(t)
    \/ \E t \in Threads : Compute(t)
    \/ \E t \in Threads : OpenCache(t)
    \/ \E t \in Threads : WriteCache(t)
    \/ UpstreamChange

CacheSpec == SeqInit /\ [][CacheNext]_vars

\* the requests of one client of the operations built on calculate_factor
CompositeParams ==
    [factors : {<<>>, <<"PER", "MOM_1M">>, <<"PER", "PER">>},
     weights : {EmptyDict, [f \in {"PER"} |-> 2],
                [f \in {"PER", "MOM_1M"} |-> IF f = "PER" THEN 1 ELSE -1],
                [f \in {"PER", "MOM_1M"} |-> IF f = "PER" THEN 1 ELSE 3]},
     market : {"KOSPI", "NASDAQ"}, date : {"20240102"}]

OpsParams == [factor : {"PER"}, market : {"KOSPI", "NASDAQ"},
              date : {"20240102"}, refresh : {FALSE}]

RankParams == [factor : {"PER"}, market : {"KOSPI", "NASDAQ"},
               date : {"20240102"}, top_n : {0, 1, 2, 20}]

ExposureParams ==
    [ticker : {NoTicker, 1, 3},
     factors : {<<>>, <<"PER", "MOM_1M">>, <<"ALPHA", "PBR", "PER">>},
     date : {"20240102"}]

RefreshParams ==
    [factors : {<<>>, <<"ALPHA", "MOM_1M">>, CatalogKeys},
     market : {"KOSPI", "NASDAQ"}, date : {"20240102"}]

\* one client calling the operations of the engine one after the other
OpsNext ==
    \/ \E p \in OpsParams : calculate_factor(1, p)
    \/ \E p \in CompositeParams : calculate_composite(1, p)
    \/ \E p \in RankParams : rank_by_factor(1, p)
    \/ \E p \in RefreshParams : refresh_cache(1, p)
    \/ \E p \in ExposureParams : get_factor_exposure(1, p)
    \/ CallCalculateFactor(1)
    \/ CalculateFactorEnds(1)
    \/ CheckCache(1)
    \/ ReadCache(1)
    \/ Compute(1)
    \/ OpenCache(1)
    \/ WriteCache(1)

OpsSpec == SeqInit /\ [][OpsNext]_vars

\* the refresh requests of one client on a supported market
BatchParams ==
    [factors : {<<"PER">>, <<"PER", "ALPHA", "PBR", "MOM_1M">>},
     market : {"KOSPI"}, date : {"20240102"}]

\* one client refreshing the cache again and again, and reading from it,
\* while the market moves
RefreshNext ==
    \/ \E p \in BatchParams : refresh_cache(1, p)
    \/ \E p \in OpsParams : calculate_factor(1, p)
    \/ CallCalculateFactor(1)
    \/ CalculateFactorEnds(1)
    \/ CheckCache(1)
    \/ ReadCache(1)
    \/ Compute(1)
    \/ OpenCache(1)
    \/ WriteCache(1)
    \/ UpstreamChange

RefreshSpec == SeqInit /\ [][RefreshNext]_vars

TypeOK ==
    /\ server \in {"init", "serving", "closing", "draining", "stopped"}
    /\ \A c \in Conns : Cardinality(cur[c]) <= 1

\* ------------------------------------------------------------------ claims
IsError(r) == "error" \in DOMAIN r

\* the id of a request line: null when the line carries none
RequestId(line) == IF line.shape = "object" THEN Get(line, "id") ELSE Null

\* json.loads returned a value
Parsed(line) == line.shape \in {"scalar", "object"}

\* the line names a method, and the registry does not hold that name
NamesUnregistered(line) ==
    /\ line.shape = "object"
    /\ line.method \notin {Absent, EmptyStr, Unhashable}
    /\ line.method \notin DOMAIN methods

\* connection c is closed by the step
Ends(c) == pc[c] # "closed" /\ pc'[c] = "closed"

\* C1: every request line read on a connection gets exactly one response
\* line on that connection, and the response carries the request's id (null
\* when the request has none).
C1_OneResponsePerLine ==
    /\ \A e \in lastEx :
        /\ Cardinality(e.resp) = 1
        /\ \A r \in e.resp : r.id = RequestId(e.req)
    /\ \A c \in Conns : cur[c] = {} => Len(out[c]) = nRead[c]

\* C2: on one connection the responses are written in the order in which
\* their requests were read.
C2_ResponsesInRequestOrder ==
    \A c \in Conns : \A i, j \in DOMAIN out[c] : i < j => out[c][i] < out[c][j]

\* two requests answered on one connection while another connection has
\* been answered too
C2_Witness ==
    \E c, d \in Conns : c # d /\ Len(out[c]) >= 2 /\ Len(out[d]) >= 1

\* C3: while a synchronous handler is running for one connection, the event
\* loop stays free and a worker thread stays available, so that a request
\* on another connection can be read, dispatched and answered.
C3_BlockingHandlerStallsNoOther ==
    \A c \in Conns : SyncRunning(c) /\ LoopRunning =>
        /\ ~LoopBlocked
        /\ BusyWorkers = {c} => FreeWorker
        /\ \A d \in Conns \ {c} :
            /\ (pc[d] = "read" /\ ~eof[d] /\ TotalRead < MaxLines) =>
                 ENABLED ReadLine(d, [shape |-> "object", jsonrpc |-> "2.0",
                                      method |-> "calc", id |-> "7"])
            /\ (\E r \in cur[d] : r.st = "done") => ENABLED Deliver(d)

\* a request answered by its handler on one connection while a synchronous
\* handler is running for another
C3_Witness ==
    \E e \in lastEx :
        e.overlap /\ e.handler # {} /\ e.resp # {} /\ OtherBlocking(e.conn)

\* C4: a request line that is not well-formed JSON is answered with error
\* -32700 and id null.
C4_MalformedGetsParseError ==
    \A e \in lastEx : e.req.shape \in {"badutf8", "badjson"} =>
        \E r \in e.resp : IsError(r) /\ r.error.code = -32700 /\ r.id = Null

\* C5: a parsed request whose jsonrpc member is missing or is not "2.0" is
\* answered with error -32600.
C5_BadVersionGetsInvalidRequest ==
    \A e \in lastEx :
        (Parsed(e.req) /\ ~(e.req.shape = "object" /\ e.req.jsonrpc = "2.0")) =>
            \E r \in e.resp : IsError(r) /\ r.error.code = -32600

\* C6 as stated: a request that names a method the registry does not hold
\* is answered with error -32601, and no handler runs.
C6_UnregisteredGetsMethodNotFound ==
    \A e \in lastEx : NamesUnregistered(e.req) =>
        /\ \E r \in e.resp : IsError(r) /\ r.error.code = -32601
        /\ e.handler = {}

\* C6 amended: a request whose jsonrpc member is "2.0" and that names a
\* method the registry does not hold is answered with error -32601, and no
\* handler runs.
C6_UnregisteredGetsMethodNotFound_Amended ==
    \A e \in lastEx : (NamesUnregistered(e.req) /\ e.req.jsonrpc = "2.0") =>
        /\ \E r \in e.resp : IsError(r) /\ r.error.code = -32601
        /\ e.handler = {}

C6_Witness ==
    \E e \in lastEx :
        NamesUnregistered(e.req) /\ e.req.jsonrpc = "2.0" /\ e.resp # {}

\* C7: when the handler raises JsonRpcError(code, message, data), the
\* response is an error with that code and that message, and it has a data
\* member, equal to data, exactly when data was given.
C7_TypedErrorPassedThrough ==
    \A e \in lastEx : \A o \in e.outcome : o.kind = "rpcerr" =>
        /\ Cardinality(e.resp) = 1
        /\ \A r \in e.resp :
            /\ IsError(r)
            /\ r.error.code = o.code
            /\ r.error.message = o.message
            /\ ("data" \in DOMAIN r.error) <=> (o.data # Null)
            /\ o.data # Null => r.error.data = o.data

\* a typed error with data has been answered
C7_Witness ==
    \E e \in lastEx : \E o \in e.outcome :
        o.kind = "rpcerr" /\ o.data # Null /\ e.resp # {}

\* C8: when the handler raises another exception, the response is error
\* -32603 with the exception's message, the connection goes back to the top
\* of its loop (it is not closed), and the step touches neither the server
\* nor any other connection, whose requests in flight stay in flight.
C8_InternalErrorKeepsServing ==
    [][\A e \in lastEx' : \A o \in e.outcome : o.kind = "raise" =>
          /\ \E r \in e.resp :
                /\ IsError(r)
                /\ r.error.code = -32603
                /\ r.error.message = <<"Internal error: ", o.message>>
                /\ r.id = RequestId(e.req)
          /\ pc'[e.conn] = "check"
          /\ server' = server
          /\ \A d \in Conns \ {e.conn} :
                pc'[d] = pc[d] /\ cur'[d] = cur[d] /\ out'[d] = out[d]]_vars

\* a handler's exception has been answered while another connection has a
\* request in flight
C8_Witness ==
    \E e \in lastEx : \E o \in e.outcome :
        /\ o.kind = "raise"
        /\ e.resp # {}
        /\ pc[e.conn] = "check"
        /\ \E d \in Conns \ {e.conn} : cur[d] # {}

\* C9 as stated: the server closes a connection only when a read returned
\* no data (the peer closed it), and an expired idle timeout leads back to
\* the top of the loop.
C9_OnlyPeerEndsConnection ==
    [][\A c \in Conns :
          /\ Ends(c) => (pc[c] = "read" /\ eof[c] /\ nRead'[c] = nRead[c])
          /\ (pc[c] = "read" /\ ~eof[c] /\ nRead'[c] = nRead[c] /\ pc'[c] # "read")
                => pc'[c] = "check"]_vars

\* C9 amended: the server closes a connection only when a read returned no
\* data (the peer closed it), when the shutdown flag is set at the top of
\* the loop, or when an exception other than the idle timeout escapes the
\* reading or handling of a line (which then gets no response); an expired
\* idle timeout leads back to the top of the loop.
C9_OnlyPeerEndsConnection_Amended ==
    [][\A c \in Conns :
          /\ Ends(c) =>
                \/ pc[c] = "read" /\ eof[c] /\ nRead'[c] = nRead[c]
                \/ pc[c] = "check" /\ shutdown
                \/ /\ pc[c] = "read"
                   /\ nRead'[c] = nRead[c] + 1
                   /\ \E e \in lastEx' : e.conn = c /\ e.resp = {} /\ e.handler = {}
          /\ (pc[c] = "read" /\ ~eof[c] /\ nRead'[c] = nRead[c] /\ pc'[c] # "read")
                => pc'[c] = "check"]_vars

\* a connection the server closed though the peer had not, every line
\* read on it answered
C9_Witness ==
    \E c \in Conns :
        pc[c] = "closed" /\ ~eof[c] /\ nRead[c] >= 1 /\ Len(out[c]) = nRead[c]

C11_ExitsAfterDrain ==
    server = "stopped" => \A c \in Conns : cur[c] = {}

\* C12: every response written has jsonrpc "2.0", an id member, and exactly
\* one of a result member and an error member; an error member has a code
\* and a message.
C12_ResultXorError ==
    \A e \in lastEx : \A r \in e.resp :
        /\ {"jsonrpc", "id"} \subseteq DOMAIN r
        /\ r.jsonrpc = "2.0"
        /\ ("result" \in DOMAIN r) # ("error" \in DOMAIN r)
        /\ IsError(r) => {"code", "message"} \subseteq DOMAIN r.error

\* a handler's return value answered for a request that carries no id
C12_Witness ==
    \E e \in lastEx : \E r \in e.resp :
        e.handler # {} /\ e.req.id = Absent /\ "result" \in DOMAIN r

\* C13: after any sequence of register_method calls the registry holds the
\* built-ins ping and shutdown, and ping is answered with pong = true and a
\* methods list equal to the set of names in the registry.
C13_PingListsRegistry ==
    /\ {"ping", "shutdown"} \subseteq DOMAIN methods
    /\ \A e \in lastEx : e.handler = {"_handle_ping"} =>
        /\ Cardinality(e.resp) = 1
        /\ \A r \in e.resp :
            /\ "result" \in DOMAIN r
            /\ r.result.pong = TRUE
            /\ r.result.methods = DOMAIN methods

\* ping answered by a bridge that has registered one method of its own
C13_Witness ==
    \E e \in lastEx :
        /\ e.handler = {"_handle_ping"}
        /\ e.resp # {}
        /\ Cardinality(DOMAIN methods) = 3

\* the value the factor is computed from, per ticker of the shim's table:
\* NaN where the claims call it invalid (a value factor's raw value missing
\* or <= 0; for ROE, BPS <= 0 or EPS missing; for momentum, too little
\* history; none for a factor that is not computed). A valid value is a pair
\* <<p, q>> standing for p / q
SourceValues(factor, data) ==
    IF FACTOR_DEFINITIONS[factor] = "value" THEN
        [i \in DOMAIN data.fund |->
            LET c == data.fund[i][factor]
            IN IF c = NaN \/ c[1] <= 0 THEN NaN ELSE Num(<<c[1], 1>>)]
    ELSE IF factor = "ROE" THEN
        [i \in DOMAIN data.fund |->
            LET r == data.fund[i]
            IN IF r.BPS = NaN \/ r.BPS[1] <= 0 \/ r.EPS = NaN THEN NaN
               ELSE Num(<<r.EPS[1], r.BPS[1]>>)]
    ELSE IF FACTOR_DEFINITIONS[factor] = "momentum" THEN data.mom
    ELSE [i \in {} |-> NaN]

ValidTickers(factor, data) ==
    {i \in DOMAIN SourceValues(factor, data) :
        SourceValues(factor, data)[i] # NaN}

\* the series to normalise has one valid point, or only equal valid points
ConstantSeries(factor, data) ==
    LET v == SourceValues(factor, data)
        same(a, b) == IF FACTOR_DEFINITIONS[factor] = "momentum" THEN a = b
                      ELSE a[1] * b[2] = b[1] * a[2]
    IN /\ ValidTickers(factor, data) # {}
       /\ \A i, j \in ValidTickers(factor, data) : same(v[i][1], v[j][1])

\* C19: when the series to normalise has a single valid point or only equal
\* valid points, the factor computation returns (no error), and its result
\* holds every ticker with a valid raw value, each with score 0.0.
C19_ConstantSeriesScoresZero ==
    \A t \in Threads : \A o \in thr[t].outcome :
        ConstantSeries(thr[t].params.factor, upstream) =>
            /\ o.kind = "return"
            /\ DOMAIN o.value.scores = ValidTickers(thr[t].params.factor, upstream)
            /\ \A k \in DOMAIN o.value.scores : o.value.scores[k] = Zero

\* C20: a factor result holds no ticker whose raw value is invalid (value
\* factor: missing or <= 0; ROE: BPS <= 0), and every entry of the frame it
\* is made from has a defined raw_value and a defined score.
C20_NoInvalidEntry ==
    \A t \in Threads : \A o \in thr[t].outcome :
        (o.kind = "return" /\ ~o.value.cached) =>
            /\ DOMAIN o.value.scores
                  \subseteq ValidTickers(thr[t].params.factor, upstream)
            /\ \A k \in DOMAIN o.value.scores : o.value.scores[k] # NaN
            /\ Len(thr[t].df) = o.value.count
            /\ \A i \in DOMAIN thr[t].df :
                  thr[t].df[i].raw_value # NaN /\ thr[t].df[i].score # NaN

\* a value-factor result that left out a ticker with an invalid raw value
\* and scored two others
C20_Witness ==
    \E t \in Threads : \E o \in thr[t].outcome :
        /\ o.kind = "return"
        /\ thr[t].params.factor = "PER"
        /\ o.value.count >= 2
        /\ o.value.count < Len(upstream.fund)

\* the call a thread has finished repeats the one it made before: same
\* factor, market and date, refresh false both times, and the earlier call
\* returned scores
Repeats(rec, q) ==
    /\ rec.pc = "done"
    /\ q.params = rec.params
    /\ ~rec.params.refresh
    /\ \A o1 \in q.outcome : o1.kind = "return"

\* the later call returned the scores of the earlier one, from the cache
SameScoresCached(rec, q) ==
    \A o \in rec.outcome : \A o1 \in q.outcome :
        /\ o.kind = "return"
        /\ o.value.scores = o1.value.scores
        /\ o.value.cached

\* C14 as stated: two calls with refresh = false for the same (factor,
\* market, date), the second finished less than 24 hours after the first
\* began, return identical scores, and the second reports cached = true.
C14_RepeatWithinDayIsCached ==
    \A q \in thr[1].prev :
        (Repeats(thr[1], q) /\ (thr[1].ended - q.began) * TickHours < 24)
            => SameScoresCached(thr[1], q)

\* C14 amended: two successive calls with refresh = false for the same
\* (factor, market, date), the second finished less than 24 hours after the
\* cache entry that the first call wrote or served was written, return
\* identical scores, and the second reports cached = true.
C14_RepeatWithinDayIsCached_Amended ==
    \A q \in thr[1].prev :
        (/\ Repeats(thr[1], q)
         /\ q.written # <<>>
         /\ (thr[1].ended - q.written[1]) * TickHours < 24)
            => SameScoresCached(thr[1], q)

\* a repeated call served from the cache after the market has moved: a
\* recomputation would give other scores
C14_Witness ==
    \E q \in thr[1].prev : \E o \in thr[1].outcome :
        /\ Repeats(thr[1], q)
        /\ o.kind = "return"
        /\ o.value.cached
        /\ \A o1 \in q.outcome : o.value.scores = o1.value.scores
        /\ ScoresOf(ComputeFactor("PER", upstream).value) # o.value.scores

\* C15: for a valid factor and market, calculate_factor takes the cached
\* branch exactly when refresh is false and a file for (factor, market,
\* date) exists whose age is strictly less than 24 hours; the cached branch
\* returns the stored scores with cached = true, calls the shim not at all
\* and leaves the file alone; the other branch calls the shim and, when the
\* computation succeeds, leaves the file holding the whole new frame, whose
\* scores it returns with cached = false.
C15_CachedExactlyWhenFresh ==
    [][\A t \in Threads :
        LET rec == thr[t]
            path == PathOf(rec)
            fresh == /\ path \in DOMAIN files
                     /\ (now - files[path].mtime) * TickHours < 24
        IN /\ (rec.pc = "check" /\ thr'[t].pc # "check") =>
                thr'[t].pc = IF ~rec.params.refresh /\ fresh
                                THEN "read" ELSE "compute"
           /\ (rec.pc = "read" /\ thr'[t].pc # "read") =>
                /\ Complete(files[path])
                /\ thr'[t].outcome =
                      {FactorResult(rec.params, files[path].parts[1][1], TRUE)}
                /\ "shim" \notin thr'[t].io
                /\ files' = files
           /\ (rec.pc = "compute" /\ thr'[t].pc # "compute") =>
                "shim" \in thr'[t].io
           /\ (rec.pc = "write2" /\ thr'[t].pc # "write2") =>
                /\ files'[path].parts = << <<rec.df>>, <<rec.df>> >>
                /\ files'[path].mtime = now
                /\ thr'[t].outcome = {FactorResult(rec.params, rec.df, FALSE)}
      ]_vars

\* thread t is between opening the cache file and closing it
Writing(t) == thr[t].pc \in {"write1", "write2"}

\* C16: of calls for one key that missed the cache and recompute at the same
\* time, each returns the complete result of its own computation, and when
\* the later writer closes the file (no other writer being at work) the
\* file holds that writer's frame, whole.
C16_LaterWriterWins ==
    [][\A t \in Threads :
        (thr[t].pc = "write2" /\ thr'[t].pc = "done") =>
            /\ thr'[t].outcome = {FactorResult(thr[t].params, thr[t].df, FALSE)}
            /\ (\A u \in Threads \ {t} : ~Writing(u)) =>
                  files'[PathOf(thr[t])].parts
                        = << <<thr[t].df>>, <<thr[t].df>> >>
      ]_vars

\* the supported set and the two error codes, as the contract names them
SupportedMarkets == {"KOSPI", "KOSDAQ"}

UnknownFactorCode == 1201

InvalidMarketCode == 1101

\* the call of thread t was refused with the given code, and touched neither
\* the cache nor the shim
Refused(t, code) ==
    /\ \A o \in thr[t].outcome : o.kind = "rpcerr" /\ o.code = code
    /\ thr[t].io = {}
    /\ thr[t].df = <<>>

\* C17: a finished calculate_factor call whose factor is outside the catalog
\* was answered 1201, and one whose market is outside {KOSPI, KOSDAQ} was
\* answered 1101; neither read or wrote a cache entry or called the shim.
C17_RejectsBeforeAnyWork ==
    \A t \in Threads :
        thr[t].pc = "done" =>
            /\ thr[t].params.factor \notin DOMAIN FACTOR_DEFINITIONS
                  => Refused(t, UnknownFactorCode)
            /\ thr[t].params.market \notin SupportedMarkets
                  => Refused(t, InvalidMarketCode)

\* C17, amended: the market is looked at only for a factor of the catalog.
\* A finished call whose factor is outside the catalog was answered 1201
\* whatever its market; one with a catalog factor and a market outside
\* {KOSPI, KOSDAQ} was answered 1101; neither touched the cache or the shim.
C17_RejectsBeforeAnyWork_Amended ==
    \A t \in Threads :
        thr[t].pc = "done" =>
            /\ thr[t].params.factor \notin DOMAIN FACTOR_DEFINITIONS
                  => Refused(t, UnknownFactorCode)
            /\ (/\ thr[t].params.factor \in DOMAIN FACTOR_DEFINITIONS
                /\ thr[t].params.market \notin SupportedMarkets)
                  => Refused(t, InvalidMarketCode)

\* a call for a catalog factor on an unsupported market was refused with
\* 1101 while the cache held an entry, after a call for an unknown factor
\* had been refused with 1201
C17_Witness ==
    \E t \in Threads :
        /\ thr[t].pc = "done"
        /\ thr[t].params.factor \in DOMAIN FACTOR_DEFINITIONS
        /\ thr[t].params.market \notin SupportedMarkets
        /\ Refused(t, InvalidMarketCode)
        /\ thr[t].outcome # {}
        /\ DOMAIN files # {}
        /\ \E q \in thr[t].prev :
              /\ q.params.factor \notin DOMAIN FACTOR_DEFINITIONS
              /\ \A o \in q.outcome : o.kind = "rpcerr" /\ o.code = 1201

\* C18: every operation that takes a market answers a market outside the
\* supported set with an error: a finished calculate_factor,
\* calculate_composite, rank_by_factor or refresh_cache call for such a
\* market did not return a result.
C18_UnsupportedMarketIsAnError ==
    \A t \in Threads :
        /\ (thr[t].pc = "done" /\ thr[t].params.market \notin SupportedMarkets)
              => \A o \in thr[t].outcome : o.kind # "return"
        /\ (/\ op[t].pc = "done"
            /\ op[t].name \in {"calculate_composite", "rank_by_factor",
                               "refresh_cache"}
            /\ op[t].params.market \notin SupportedMarkets)
              => \A o \in op[t].outcome : o.kind # "return"

\* the profitability factors the catalog declares without computing them
NotYetComputed == {"ROA", "GP_MARGIN", "OP_MARGIN"}

\* C21: a finished calculate_factor call for ROA, GP_MARGIN or OP_MARGIN was
\* answered with the not-implemented error (1201, "not yet fully
\* implemented") whatever the shim returned, and wrote no cache entry.
C21_NotImplementedAlways ==
    \A t \in Threads :
        (thr[t].pc = "done" /\ thr[t].params.factor \in NotYetComputed
                /\ thr[t].params.market \in SupportedMarkets) =>
            /\ thr[t].outcome
                  = {JsonRpcError(1201, "Factor is not yet fully implemented")}
            /\ "write" \notin thr[t].io
            /\ PathOf(thr[t]) \notin DOMAIN files

\* the fractions of a weight map add up to one
SumsToOne(weights) ==
    /\ DOMAIN weights # {}
    /\ \E k \in DOMAIN weights :
          /\ \A j \in DOMAIN weights : weights[j][2] = weights[k][2]
          /\ SumOver([j \in DOMAIN weights |-> weights[j][1]], DOMAIN weights)
                = weights[k][2]

\* C22: whatever weights the caller supplies, calculate_composite normalises
\* them: no call with a non-empty factor list fails in the normalisation,
\* and the weight map of every result sums to 1.
C22_WeightsSumToOne ==
    \A t \in Threads :
        (op[t].pc = "done" /\ op[t].name = "calculate_composite"
                /\ op[t].params.factors # <<>>) =>
            \A o \in op[t].outcome :
                /\ o # [kind |-> "raise", message |-> "ZeroDivisionError"]
                /\ o.kind = "return" => SumsToOne(o.value.weights)

\* C23: in every calculate_composite result, each ticker of composite_scores
\* is in the result of every requested factor, and each term of its sum is
\* the score that factor's result gives it: a ticker missing from one
\* factor's result is left out, none of its scores is made up.
C23_NoImputedScore ==
    \A t \in Threads :
        (op[t].pc = "done" /\ op[t].name = "calculate_composite") =>
            \A o \in op[t].outcome :
                o.kind = "return" =>
                    \A k \in DOMAIN o.value.composite_scores :
                        \A i \in DOMAIN op[t].params.factors :
                            LET f == op[t].params.factors[i]
                            IN /\ f \in DOMAIN op[t].acc
                               /\ k \in DOMAIN op[t].acc[f]
                               /\ o.value.composite_scores[k][i][1]
                                     = op[t].acc[f][k]

\* a composite of two factors that scores one ticker and leaves out a
\* ticker that only one of the two factors has scored
C23_Witness ==
    \E t \in Threads : \E o \in op[t].outcome :
        /\ op[t].pc = "done"
        /\ op[t].name = "calculate_composite"
        /\ o.kind = "return"
        /\ o.value.count >= 1
        /\ Len(op[t].params.factors) = 2
        /\ \E f \in DOMAIN op[t].acc : \E k \in DOMAIN op[t].acc[f] :
              k \notin DOMAIN o.value.composite_scores

\* C24: a rank_by_factor result lists min(top_n, number of scored tickers)
\* distinct tickers, ranked 1, 2, ..., k, in non-increasing order of score,
\* and no ticker left out has a higher score than a listed one.
C24_TopNInScoreOrder ==
    \A t \in Threads :
        (op[t].pc = "done" /\ op[t].name = "rank_by_factor") =>
            \A o \in op[t].outcome :
                o.kind = "return" =>
                    LET scores == op[t].acc
                        r == o.value.rankings
                        n == Cardinality(DOMAIN scores)
                        listed == {r[i].ticker : i \in DOMAIN r}
                    IN /\ Len(r) = IF op[t].params.top_n < n
                                      THEN op[t].params.top_n ELSE n
                       /\ listed \subseteq DOMAIN scores
                       /\ Cardinality(listed) = Len(r)
                       /\ \A i \in DOMAIN r : r[i].rank = i
                       /\ \A i, j \in DOMAIN r :
                            i < j => ~Higher(scores[r[j].ticker],
                                             scores[r[i].ticker])
                       /\ \A k \in DOMAIN scores \ listed : \A i \in DOMAIN r :
                            ~Higher(scores[k], scores[r[i].ticker])

\* a ranking cut to its first entry, which leaves out a ticker with a lower
\* score
C24_Witness ==
    \E t \in Threads : \E o \in op[t].outcome :
        /\ op[t].pc = "done"
        /\ op[t].name = "rank_by_factor"
        /\ o.kind = "return"
        /\ Len(o.value.rankings) = 1
        /\ \E k \in DOMAIN op[t].acc :
              Higher(op[t].acc[o.value.rankings[1].ticker], op[t].acc[k])

\* C25: get_factor_exposure with a ticker never fails because of a factor.
\* Each time one of its calculate_factor calls ends, the factor enters the
\* exposures exactly when the call returned a result that holds the ticker
\* (with that score, rounded), the exposures of the other factors stay as
\* they are, and the operation goes on to the next factor or returns the
\* exposures as a success.
C25_ExposureOmitsFailures ==
    [][\A t \in Threads :
        (op[t].name = "get_factor_exposure" /\ op[t].pc = "wait"
                /\ op'[t] # op[t]) =>
            LET f == Head(op[t].todo)
                ok == \E o \in thr[t].outcome :
                        /\ o.kind = "return"
                        /\ op[t].params.ticker \in DOMAIN o.value.scores
                before == op[t].acc
                after == op'[t].acc
            IN /\ op'[t].pc \in {"loop", "done"}
               /\ op'[t].pc = "loop" <=> Len(op[t].todo) > 1
               /\ DOMAIN after = IF ok THEN DOMAIN before \cup {f}
                                 ELSE DOMAIN before
               /\ ok => \A o \in thr[t].outcome :
                          after[f] = Round4(o.value.scores[op[t].params.ticker])
               /\ \A g \in DOMAIN before \ {f} : after[g] = before[g]
               /\ op'[t].pc = "done" =>
                    /\ op'[t].outcome # {}
                    /\ \A o \in op'[t].outcome :
                          /\ o.kind = "return"
                          /\ o.value.exposures = after
      ]_vars

\* an exposure request for three factors, two of which failed, that
\* returned the exposure to the third
C25_Witness ==
    \E t \in Threads : \E o \in op[t].outcome :
        /\ op[t].pc = "done"
        /\ op[t].name = "get_factor_exposure"
        /\ Len(op[t].params.factors) = 3
        /\ o.kind = "return"
        /\ DOMAIN o.value.exposures = {"PER"}

\* C26: refresh_cache reports the listed factors whose forced recomputation
\* succeeded, in listed order. Each time one of its calculate_factor calls
\* ends, the factor is appended to the refreshed list exactly when the call
\* returned a result; that call did not look at the cache, computed anew
\* and left the file holding its frame; a failed call changes nothing and
\* the operation goes on to the next factor, or returns the list and its
\* length as a success.
C26_RefreshedAreTheSucceeded ==
    [][\A t \in Threads :
        (op[t].name = "refresh_cache" /\ op[t].pc = "wait"
                /\ op'[t] # op[t]) =>
            LET f == Head(op[t].todo)
                ok == \E o \in thr[t].outcome : o.kind = "return"
                before == op[t].acc
                after == op'[t].acc
            IN /\ op'[t].pc \in {"loop", "done"}
               /\ op'[t].pc = "loop" <=> Len(op[t].todo) > 1
               /\ after = IF ok THEN Append(before, f) ELSE before
               /\ ok => \A o \in thr[t].outcome :
                    /\ ~o.value.cached
                    /\ thr[t].params.factor = f
                    /\ thr[t].io \cap {"stat", "read"} = {}
                    /\ {"shim", "write"} \subseteq thr[t].io
                    /\ PathOf(thr[t]) \in DOMAIN files
                    /\ files[PathOf(thr[t])].parts
                          = << <<thr[t].df>>, <<thr[t].df>> >>
                    /\ o.value.scores = ScoresOf(thr[t].df)
               /\ op'[t].pc = "done" =>
                    /\ op'[t].outcome # {}
                    /\ \A o \in op'[t].outcome :
                          /\ o.kind = "return"
                          /\ o.value.refreshed = after
                          /\ o.value.count = Len(after)
      ]_vars

\* a refresh in which a factor has failed and another has been refreshed is
\* about to overwrite an entry that is still valid with a different frame
C26_Witness ==
    \E t \in Threads :
        /\ op[t].name = "refresh_cache"
        /\ op[t].pc = "wait"
        /\ op[t].acc # <<>>
        /\ Len(op[t].acc) + Len(op[t].todo) < Len(op[t].params.factors)
        /\ thr[t].pc = "open"
        /\ _is_cache_valid(files, PathOf(thr[t]), now)
        /\ Complete(files[PathOf(thr[t])])
        /\ files[PathOf(thr[t])].parts[1][1] # thr[t].df


\* ------------------------------------------------ the screener: parsing
\* a completed call of a screener method, with the markets it asked the
\* exchange for
ScreenerCall(method, params, fetched, outcome) ==
    [method |-> method, params |-> params, fetched |-> fetched,
     outcome |-> outcome]

\* ScreenerBridge.parse_conditions: every condition parsed in order; the
\* first that does not parse ends the call with its error
parse_conditions(params) ==
    \E all \in {ParseAll(params.conditions)} :
        LET result ==
                IF all.kind # "return" THEN all
                ELSE [kind |-> "return",
                      value |-> [parsed |->
                          [i \in DOMAIN all.value |->
                              [original |-> params.conditions[i],
                               factor |-> all.value[i].factor,
                               operator |-> all.value[i].operator,
                               value |-> all.value[i].value]]]]
        IN /\ scr' = {ScreenerCall("parse_conditions", params, <<>>, result)}
           /\ UNCHANGED <<bridgeVars, engineVars, momentumVars, krx, screens>>

\* the factors a condition may name, with the column each stands for
FactorCases ==
    {[text |-> T_PER, column |-> T_PER], [text |-> T_ROE, column |-> T_ROE],
     [text |-> T_MARKET_CAP, column |-> T_MARKET_CAP],
     [text |-> <<"SI", "CHONG">>, column |-> T_MARKET_CAP],
     [text |-> <<"SI", "GA", "CHONG", "AEK">>, column |-> T_MARKET_CAP],
     [text |-> <<"BAE", "DANG", "RYUL">>, column |-> T_DIV],
     [text |-> <<"BAE", "DANG", "SU", "IK", "RYUL">>, column |-> T_DIV],
     [text |-> <<"JA", "GI", "JA", "BON", "I", "IK", "RYUL">>,
      column |-> T_ROE]}

OperatorCases ==
    {<<"<", "=">>, <<">", "=">>, <<"=", "=">>, <<"!", "=">>, <<"<">>, <<">">>}

\* numbers as written and as m * 10^e
NumberCases ==
    {[text |-> <<"1", "0">>, m |-> 1, e |-> 1],
     [text |-> <<"1", ".", "5">>, m |-> 15, e |-> -1],
     [text |-> <<"-", "3">>, m |-> -3, e |-> 0],
     [text |-> <<"0", ".", "2", "5">>, m |-> 25, e |-> -2]}

\* the suffixes and the power of ten each multiplies by
UnitCases ==
    {[text |-> <<>>, e |-> 0], [text |-> <<"JO">>, e |-> 12],
     [text |-> <<"EOK">>, e |-> 8], [text |-> <<"MAN">>, e |-> 4],
     [text |-> <<"%">>, e |-> 0]}

\* the conditions built as factor, operator, number and optional unit, each
\* with what it means
ConditionCases ==
    {[text |-> c[1].text \o c[2] \o c[3].text \o c[4].text,
      factor |-> c[1].column,
      operator |-> c[2],
      value |-> <<c[3].m, c[3].e + c[4].e>>] :
        c \in {x \in FactorCases \X OperatorCases \X NumberCases
                        \X UnitCases :
                  \/ x[1].text \in {T_PER, <<"SI", "CHONG">>}
                  \/ x[3].text = <<"1", "0">> /\ x[4].text = <<>>}}

\* conditions that are not of that form
Malformed ==
    {T_PER, <<>>, T_PER \o <<"<", "1", "<", "2">>, T_PER \o <<"<", "x">>,
     T_PER \o <<">", "x", "EOK">>, T_PER \o <<"<", "1", ".", "2", ".", "3">>,
     T_PER \o <<"=", "1">>}

\* conditions of that form whose factor is no column and no alias: a name
\* the table does not have, a column name in lower case, and no name at all
Unresolvable ==
    {<<"X", "Y", "Z", ">", "1">>, <<"p", "e", "r", "<", "1", "0">>,
     <<"<", "1", "0">>}

ParseParams ==
    [conditions :
        {<<>>} \cup {<<c.text>> : c \in ConditionCases}
            \cup {<<m>> : m \in Malformed}
            \cup {<<u>> : u \in Unresolvable}
            \cup {<<T_PER \o <<" ", "<", "=", " ", "1", "0", " ", "%", " ">>,
                    m>> : m \in Malformed}]

ParseNext == \E p \in ParseParams : parse_conditions(p)

ParseSpec == Init /\ [][ParseNext]_vars

\* C27: a condition built as factor, operator, number and optional unit
\* parses to exactly that operator, to the column the factor stands for and
\* to the number times the multiplier of the unit
C27_BuiltConditionsParse ==
    \A c \in scr :
        (c.method = "parse_conditions" /\ Len(c.params.conditions) = 1) =>
            \A case \in ConditionCases :
                case.text = c.params.conditions[1] =>
                    /\ c.outcome.kind = "return"
                    /\ c.outcome.value.parsed =
                          <<[original |-> case.text,
                             factor |-> case.factor,
                             operator |-> case.operator,
                             value |-> case.value]>>

\* C27 witness: the alias of the market value with >= and 1.5 trillion has
\* been parsed
C27_Witness ==
    \E c \in scr :
        /\ c.method = "parse_conditions"
        /\ c.params.conditions = << <<"SI", "CHONG", ">", "=", "1", ".", "5",
                                      "JO">> >>
        /\ c.outcome.kind = "return"
        /\ c.outcome.value.parsed[1].factor = T_MARKET_CAP
        /\ c.outcome.value.parsed[1].operator = <<">", "=">>
        /\ c.outcome.value.parsed[1].value = <<15, 11>>


\* ------------------------------------------- the screener: saved screens
T_conditions == <<"c", "o", "n", "d", "i", "t", "i", "o", "n", "s">>

T_created == <<"c", "r", "e", "a", "t", "e", "d">>

\* json.dump of a str with ensure_ascii=False: quotes and backslashes are
\* escaped, every other character stands for itself
RECURSIVE Escape(_)
Escape(text) ==
    IF text = <<>> THEN <<>>
    ELSE (IF Head(text) \in {"\"", "\\"} THEN <<"\\", Head(text)>>
          ELSE <<Head(text)>>) \o Escape(Tail(text))

EncodeString(text) == <<"\"">> \o Escape(text) \o <<"\"">>

RECURSIVE JoinItems(_)
JoinItems(items) ==
    IF Len(items) = 1 THEN EncodeString(items[1])
    ELSE EncodeString(Head(items)) \o <<",", "\n", " ">>
            \o JoinItems(Tail(items))

\* json.dump of a list of str with an indent
EncodeList(items) ==
    IF items = <<>> THEN <<"[", "]">>
    ELSE <<"[", "\n", " ">> \o JoinItems(items) \o <<"\n", "]">>

\* a code point UTF-8 cannot encode: a surrogate without its pair, which a
\* request may carry as an escape
LoneSurrogate == "U+D800"

\* the first string of a list that the file cannot encode, or 0
FirstUnencodable(items) ==
    IF \A i \in DOMAIN items : LoneSurrogate \notin Members(items[i]) THEN 0
    ELSE CHOOSE i \in DOMAIN items :
            /\ LoneSurrogate \in Members(items[i])
            /\ \A j \in 1..(i - 1) : LoneSurrogate \notin Members(items[j])

\* json.dump of {"name": ..., "conditions": ..., "created": ...} into the
\* file opened for writing: the text of the file afterwards. The encoder
\* hands the file one piece at a time; the write of the piece that holds an
\* unencodable string raises and leaves the pieces written before it.
dump(name, conditions, created) ==
    LET bad == FirstUnencodable(conditions)
        before == <<"{", "\n">> \o EncodeString(T_name) \o <<":", " ">>
                    \o EncodeString(name) \o <<",", "\n">>
                    \o EncodeString(T_conditions) \o <<":", " ">>
    IN IF bad = 0
          THEN before \o EncodeList(conditions) \o <<",", "\n">>
                  \o EncodeString(T_created) \o <<":", " ">>
                  \o EncodeString(created) \o <<"\n", "}">>
       ELSE IF bad = 1 THEN before
       ELSE before \o <<"[", "\n", " ">>
               \o JoinItems(SubSeq(conditions, 1, bad - 1))

\* the first position from i on that holds no blank
RECURSIVE SkipBlanks(_, _)
SkipBlanks(text, i) ==
    IF i <= Len(text) /\ text[i] \in {" ", "\n"} THEN SkipBlanks(text, i + 1)
    ELSE i

\* the characters of a string literal from i to its closing quote, and the
\* position after it
RECURSIVE ScanString(_, _, _)
ScanString(text, i, acc) ==
    IF text[i] = "\"" THEN [value |-> acc, next |-> i + 1]
    ELSE IF text[i] = "\\"
        THEN ScanString(text, i + 2, Append(acc, text[i + 1]))
    ELSE ScanString(text, i + 1, Append(acc, text[i]))

\* the items of a list from i, after its bracket or a comma, to its end
RECURSIVE ScanList(_, _, _)
ScanList(text, i, acc) ==
    LET j == SkipBlanks(text, i)
    IN IF text[j] = "]" THEN [value |-> acc, next |-> j + 1]
       ELSE LET item == ScanString(text, j + 1, <<>>)
                k == SkipBlanks(text, item.next)
            IN IF text[k] = ","
                  THEN ScanList(text, k + 1, Append(acc, item.value))
               ELSE [value |-> Append(acc, item.value), next |-> k + 1]

\* the members of an object from i, after its brace or a comma, to its end
RECURSIVE ScanObject(_, _, _)
ScanObject(text, i, acc) ==
    LET key == ScanString(text, SkipBlanks(text, i) + 1, <<>>)
        j == SkipBlanks(text, SkipBlanks(text, key.next) + 1)
        member == IF text[j] = "[" THEN ScanList(text, j + 1, <<>>)
                  ELSE ScanString(text, j + 1, <<>>)
        k == SkipBlanks(text, member.next)
        obj == (key.value :> member.value) @@ acc
    IN IF text[k] = "," THEN ScanObject(text, k + 1, obj) ELSE obj

\* json.load of a file json.dump wrote: the object, or a JSONDecodeError for
\* a text that does not end with the closing brace
load(text) ==
    IF text = <<>> \/ text[Len(text)] # "}"
        THEN [kind |-> "raise", message |-> "JSONDecodeError"]
    ELSE [kind |-> "return",
          value |-> ScanObject(text, SkipBlanks(text, 1) + 1, EmptyDict)]

\* datetime.now().isoformat()
isoformat(clock) == <<"T", <<"0", "1", "2", "3", "4", "5", "6", "7", "8",
                                "9">>[(clock % 10) + 1]>>

\* f"{SCREENS_DIR}/{name}.json"
ScreenPath(name) ==
    <<"SCREENS_DIR", "/">> \o name \o <<".", "j", "s", "o", "n">>

\* ScreenerBridge.save_screen on the directory dir: the outcome and the
\* directory afterwards
SaveScreen(dir, params, clock) ==
    IF params.name = <<>>
        THEN [outcome |-> JsonRpcError(1301, "Screen name required"),
              screens |-> dir]
    ELSE [outcome |->
             IF FirstUnencodable(params.conditions) # 0
                THEN [kind |-> "raise", message |-> "UnicodeEncodeError"]
             ELSE [kind |-> "return",
                   value |-> [saved |-> TRUE, name |-> params.name,
                              path |-> ScreenPath(params.name)]],
          screens |-> (params.name :>
                          dump(params.name, params.conditions,
                               isoformat(clock))) @@ dir]

\* ScreenerBridge.load_screen on the directory dir
LoadScreen(dir, params) ==
    IF params.name = <<>> THEN JsonRpcError(1301, "Screen name required")
    ELSE IF params.name \notin DOMAIN dir
        THEN JsonRpcError(1301, "Screen not found")
    ELSE load(dir[params.name])

\* the end of screen, once every condition has been applied: the rows left
\* are sorted, limited and formatted, and the conditions saved if asked
Results(dir, params, conditions, total_count, applied, fetched, clock) ==
    LET sorted == IF params.sort_by # <<>> /\ params.sort_by \in Columns
                     THEN sort_values(applied.df, params.sort_by,
                                      params.sort_order = "asc")
                  ELSE applied.df
        saved == SaveScreen(dir, [name |-> params.save,
                                  conditions |-> conditions], clock)
    IN With(head(sorted, params.limit), LAMBDA limited :
         IF params.save # <<>> /\ saved.outcome.kind # "return"
            THEN [outcome |-> saved.outcome, screens |-> saved.screens,
                  fetched |-> fetched]
         ELSE [outcome |->
                  [kind |-> "return",
                   value |-> [conditions |-> conditions,
                              parsed |-> applied.parsed,
                              market |-> params.market,
                              date |-> params.date,
                              matchCount |-> Len(limited),
                              totalCount |-> total_count,
                              results |-> [i \in DOMAIN limited |->
                                              ResultRow(limited[i])],
                              savedAs |-> params.save]],
               screens |-> IF params.save # <<>> THEN saved.screens ELSE dir,
               fetched |-> fetched])

\* the conditions of a call taken from its parameters alone, whatever it
\* names to load
Conditions_Given(params, loaded) == params.conditions

\* the conditions screen works with: those of the screen it was asked to
\* load, which replace the ones it was given
Conditions(params, loaded) ==
    IF params.load = <<>> THEN params.conditions
    ELSE IF T_conditions \in DOMAIN loaded.value
        THEN loaded.value[T_conditions]
    ELSE <<>>

\* ScreenerBridge.screen on the tables data and the directory dir: the
\* outcome, the directory afterwards and the markets fetched
Screen(data, dir, params, clock) ==
    LET Raise(e, fetched) ==
            [outcome |-> e, screens |-> dir, fetched |-> fetched]
        loaded == LoadScreen(dir, [name |-> params.load])
        fetched == IF params.market = "ALL" THEN <<"KOSPI", "KOSDAQ">>
                   ELSE <<params.market>>
        table == IF params.market = "ALL"
                    THEN _get_market_data(data, "KOSPI")
                           \o _get_market_data(data, "KOSDAQ")
                 ELSE _get_market_data(data, params.market)
    IN IF params.load # <<>> /\ loaded.kind # "return"
          THEN Raise(loaded, <<>>)
       ELSE With(Conditions(params, loaded), LAMBDA conditions :
         IF params.load # <<>> /\ conditions = <<>>
            THEN Raise(JsonRpcError(1301, "No conditions found in screen"),
                       <<>>)
         ELSE IF conditions = <<>>
            THEN Raise(JsonRpcError(1301, "At least one condition required"),
                       <<>>)
         ELSE IF params.market \notin {"ALL", "KOSPI", "KOSDAQ"}
            THEN Raise(JsonRpcError(1101, "Invalid market"), <<>>)
         ELSE With(table, LAMBDA df :
                With(ApplyAll(conditions, df, <<>>), LAMBDA applied :
                  IF applied.kind # "return" THEN Raise(applied, fetched)
                  ELSE With(applied.value, LAMBDA rows :
                         Results(dir, params, conditions, Len(df), rows,
                                 fetched, clock)))))

\* the screen method
screen(params) ==
    \E r \in {Screen(krx, screens, params, now)} :
        /\ scr' = {ScreenerCall("screen", params, r.fetched, r.outcome)}
        /\ screens' = r.screens
        /\ UNCHANGED <<bridgeVars, engineVars, momentumVars, krx>>

\* the save_screen method
save_screen(params) ==
    \E r \in {SaveScreen(screens, params, now)} :
        /\ scr' = {ScreenerCall("save_screen", params, <<>>, r.outcome)}
        /\ screens' = r.screens
        /\ UNCHANGED <<bridgeVars, engineVars, momentumVars, krx>>

\* the load_screen method
load_screen(params) ==
    /\ scr' = {ScreenerCall("load_screen", params, <<>>,
                            LoadScreen(screens, params))}
    /\ UNCHANGED <<bridgeVars, engineVars, momentumVars, krx, screens>>

\* the list_screens method: the names of the files, in the order the
\* directory lists them
list_screens ==
    \E order \in [1..Cardinality(DOMAIN screens) -> DOMAIN screens] :
        /\ \A i, j \in DOMAIN order : order[i] = order[j] => i = j
        /\ scr' = {ScreenerCall("list_screens", EmptyDict, <<>>,
                                [kind |-> "return",
                                 value |-> [screens |-> order]])}
        /\ UNCHANGED <<bridgeVars, engineVars, momentumVars, krx, screens>>


\* conditions that parse and name a column
Cond_PER == T_PER \o <<"<", "1", "0">>

Cond_ROE == T_ROE \o <<">", "=", "1", "5">>

Cond_CAP == <<"SI", "CHONG", ">", "1", "EOK">>

Cond_NotROE == T_ROE \o <<"!", "=", "2", "0">>

\* conditions without an operator, with a value that is no number, and
\* with a factor that is no column
Cond_NoOperator == T_PER

Cond_NoNumber == T_PER \o <<"<", "x">>

Cond_NoColumn == <<"X", "Y", "Z", ">", "1">>

\* a condition on the names, and a text with a quote, a backslash and blanks
Cond_Name == T_name \o <<">", "1">>

Cond_Quoted == <<"P", "E", "R", " ", "<", " ", "\"", "\\", "1">>

\* a text the file cannot encode
Cond_Unencodable == <<LoneSurrogate, "<", "1">>

Name_a == <<"a">>

Name_b == <<"b">>

\* the parameters of a screen call; an empty text stands for a parameter
\* that was not given
ScreenCallParams(conditions, market, sort_by, sort_order, limit, ld, sv) ==
    [conditions |-> conditions, market |-> market, date |-> "20240102",
     sort_by |-> sort_by, sort_order |-> sort_order, limit |-> limit,
     load |-> ld, save |-> sv]

ConditionLists ==
    {<<>>, <<Cond_PER>>, <<Cond_ROE>>, <<Cond_NotROE>>,
     <<Cond_PER, Cond_ROE>>, <<Cond_ROE, Cond_PER>>,
     <<Cond_CAP, Cond_NotROE>>, <<Cond_PER, Cond_NotROE, Cond_CAP>>,
     <<Cond_NoOperator>>, <<Cond_NoNumber>>, <<Cond_NoColumn>>,
     <<Cond_PER, Cond_NoOperator>>, <<Cond_NoNumber, Cond_PER>>,
     <<Cond_PER, Cond_NoColumn>>, <<Cond_PER, Cond_ROE, Cond_NoNumber>>,
     <<Cond_Name>>, <<Cond_Name, Cond_NoOperator>>}

ScreenParams ==
    {ScreenCallParams(c, "KOSPI", <<>>, "desc", 100, <<>>, <<>>) :
        c \in ConditionLists}
    \cup {ScreenCallParams(c, "KOSPI", <<>>, "desc", 2, <<>>, <<>>) :
            c \in {<<Cond_NotROE>>, <<Cond_CAP, Cond_NotROE>>,
                   <<Cond_PER, Cond_NoColumn>>}}
    \cup {ScreenCallParams(c, "KOSPI", <<>>, "desc", 100, <<>>, Name_a) :
            c \in {<<Cond_PER>>, <<Cond_ROE, Cond_PER>>,
                   <<Cond_NoOperator, Cond_PER>>,
                   <<Cond_PER, Cond_ROE, Cond_NoColumn>>}}
    \cup {ScreenCallParams(c, m, <<>>, "desc", 100, <<>>, <<>>) :
            c \in {<<Cond_NotROE>>, <<Cond_PER, Cond_NoColumn>>},
            m \in {"KOSDAQ", "ALL", "NYSE"}}
    \cup {ScreenCallParams(<<Cond_NotROE>>, "ALL", by, o, 2, <<>>, <<>>) :
            by \in {T_ROE, <<"X">>}, o \in {"asc", "desc"}}
    \cup {ScreenCallParams(<<>>, "KOSPI", <<>>, "desc", 100, ld, sv) :
            ld \in {Name_a, Name_b}, sv \in {<<>>, Name_b}}
    \cup {ScreenCallParams(<<Cond_NoOperator>>, "KOSPI", T_PER, "asc", 100,
                           Name_a, <<>>)}

SaveParams ==
    [name : {<<>>, Name_a},
     conditions : {<<Cond_PER>>, <<Cond_Quoted, Cond_ROE>>}]
        \cup {[name |-> Name_b, conditions |-> <<>>],
              [name |-> Name_a, conditions |-> <<Cond_PER, Cond_Unencodable>>]}

LoadParams == [name : {<<>>, Name_a, Name_b}]

ScreenInit ==
    /\ BridgeInit
    /\ EngineInit({NoData})
    /\ ScreenerInit(MarketData)
    /\ MomentumInit({NoPrices})

ScreenNext ==
    \/ \E p \in ScreenParams : screen(p)
    \/ \E p \in SaveParams : save_screen(p)
    \/ \E p \in LoadParams : load_screen(p)
    \/ list_screens
    \/ \E p \in [conditions : {<<Cond_CAP>>, <<Cond_PER, Cond_NoNumber>>}] :
          parse_conditions(p)

ScreenSpec == ScreenInit /\ [][ScreenNext]_vars


\* the codes of the domain validation errors: market, factor, syntax
ValidationCodes == {1101, 1201, 1301}

\* the invalid conditions among those the calls are made with
InvalidConditions == {Cond_NoOperator, Cond_NoNumber, Cond_NoColumn}

\* C28: a screen call with an invalid condition anywhere in its list ends
\* in a validation error and saves nothing, and no call that returns has
\* worked with an invalid condition
C28_InvalidConditionFailsAll ==
    [][\A c \in scr' :
          c.method = "screen" =>
              /\ (/\ c.params.load = <<>>
                  /\ \E i \in DOMAIN c.params.conditions :
                        c.params.conditions[i] \in InvalidConditions)
                    => /\ c.outcome.kind = "rpcerr"
                       /\ c.outcome.code \in ValidationCodes
                       /\ screens' = screens
              /\ c.outcome.kind = "return" =>
                    \A i \in DOMAIN c.outcome.value.conditions :
                        c.outcome.value.conditions[i] \notin InvalidConditions
      ]_vars

\* the table a screen call with these parameters filters
TableOf(data, params) ==
    IF params.market = "ALL"
        THEN _get_market_data(data, "KOSPI") \o _get_market_data(data, "KOSDAQ")
    ELSE _get_market_data(data, params.market)

\* a row of the table passes a parsed condition; a name is unequal to every
\* number and compares with none
Passes(row, parsed) ==
    IF parsed.factor = T_name THEN parsed.operator = <<"!", "=">>
    ELSE OPERATORS(parsed.operator, row.cols[parsed.factor], parsed.value)

\* C29: in every successful result matchCount is at most totalCount, every
\* returned row passes every condition, and a list of given conditions
\* matches no more rows than the list without its last condition
C29_ConjunctiveMonotonic ==
    \A c \in scr :
        (c.method = "screen" /\ c.outcome.kind = "return") =>
            LET result == c.outcome.value
                table == TableOf(krx, c.params)
                shorter == [c.params EXCEPT
                               !.conditions = SubSeq(c.params.conditions, 1,
                                   Len(c.params.conditions) - 1),
                               !.save = <<>>]
            IN /\ result.matchCount <= result.totalCount
               /\ result.matchCount = Len(result.results)
               /\ \A i \in DOMAIN result.results :
                     \E k \in DOMAIN table :
                        /\ table[k].ticker = result.results[i].ticker
                        /\ \A j \in DOMAIN result.parsed :
                              Passes(table[k], result.parsed[j])
               /\ (c.params.load = <<>> /\ Len(c.params.conditions) > 1) =>
                     LET before == Screen(krx, screens, shorter, now).outcome
                     IN /\ before.kind = "return"
                        /\ result.matchCount <= before.value.matchCount

\* C29 witness: of the three companies with a market value above 10^8, two
\* are left by the second condition
C29_Witness ==
    \E c \in scr :
        /\ c.method = "screen"
        /\ c.params.conditions = <<Cond_CAP, Cond_NotROE>>
        /\ c.params.limit = 100
        /\ c.outcome.kind = "return"
        /\ c.outcome.value.totalCount = 3
        /\ c.outcome.value.matchCount = 2
        /\ Screen(krx, screens,
                  [c.params EXCEPT !.conditions = <<Cond_CAP>>],
                  now).outcome.value.matchCount = 3

\* what load_screen returns for a name in the directory dir
Stored(dir, name) == LoadScreen(dir, [name |-> name])

\* the names calls are made with
ScreenNames == {Name_a, Name_b}

\* C30: a successful save, by save_screen or by a screen call with a save
\* name, makes load_screen return exactly the condition strings it was
\* given, in order, and changes what no other name returns; no other call
\* changes what a name returns; and load_screen returns what is stored
C30_LoadReturnsLastSave ==
    [][\A c \in scr' :
          LET saves == /\ c.outcome.kind = "return"
                       /\ \/ c.method = "save_screen"
                          \/ c.method = "screen" /\ c.params.save # <<>>
              name == IF c.method = "screen" THEN c.params.save
                      ELSE c.params.name
              conditions == IF c.method = "screen"
                               THEN c.outcome.value.conditions
                            ELSE c.params.conditions
          IN /\ saves =>
                  /\ Stored(screens', name).kind = "return"
                  /\ Stored(screens', name).value[T_conditions] = conditions
                  /\ Stored(screens', name).value[T_name] = name
                  /\ \A other \in ScreenNames \ {name} :
                        Stored(screens', other) = Stored(screens, other)
             /\ ~saves =>
                  \A n \in ScreenNames : Stored(screens', n) = Stored(screens, n)
             /\ c.method = "load_screen" =>
                  c.outcome = Stored(screens', c.params.name)
      ]_vars

\* the rows of a table that pass every condition of a parsed list
Matching(table, parsed) ==
    SelectSeq(table, LAMBDA row :
        \A j \in DOMAIN parsed : Passes(row, parsed[j]))

\* C31: in every successful screen result totalCount is the number of rows
\* of the joined table, matchCount is the number of its rows that pass every
\* condition, and the result carries the condition strings with their parsed
\* forms, one for one and in order
C31_CountsAndConditions ==
    \A c \in scr :
        (c.method = "screen" /\ c.outcome.kind = "return") =>
            LET result == c.outcome.value
                table == TableOf(krx, c.params)
            IN /\ result.totalCount = Len(table)
               /\ result.matchCount = Len(Matching(table, result.parsed))
               /\ c.params.load = <<>> =>
                     result.conditions = c.params.conditions
               /\ Len(result.parsed) = Len(result.conditions)
               /\ \A i \in DOMAIN result.conditions :
                     parse_condition(result.conditions[i]) =
                        [kind |-> "return", value |-> result.parsed[i]]

\* C32: a screen call that names a screen to load resolves the name first.
\* When the name does not load, the call ends in that error with no market
\* fetched and no screen saved; when it loads, the call does what a call
\* given the stored conditions does, reports them, and saves them under the
\* save name
C32_LoadResolvedFirst ==
    [][\A c \in scr' :
          (c.method = "screen" /\ c.params.load # <<>>) =>
              LET stored == Stored(screens, c.params.load)
              IN IF stored.kind # "return"
                    THEN /\ c.outcome = stored
                         /\ c.outcome.kind # "return"
                         /\ c.params.load \notin DOMAIN screens =>
                               c.outcome.kind = "rpcerr"
                         /\ c.fetched = <<>>
                         /\ screens' = screens
                 ELSE LET conditions == stored.value[T_conditions]
                          same == Screen(krx, screens,
                                         [c.params EXCEPT
                                             !.load = <<>>,
                                             !.conditions = conditions],
                                         now)
                      IN /\ conditions = <<>> =>
                              /\ c.outcome.kind = "rpcerr"
                              /\ c.fetched = <<>>
                              /\ screens' = screens
                         /\ conditions # <<>> =>
                              /\ c.outcome = same.outcome
                              /\ c.fetched = same.fetched
                              /\ screens' = same.screens
                         /\ c.outcome.kind = "return" =>
                              /\ c.outcome.value.conditions = conditions
                              /\ c.params.save # <<>> =>
                                    Stored(screens', c.params.save)
                                        .value[T_conditions] = conditions
      ]_vars

\* C32 witness: a call given no conditions loads the screen a, returns its
\* one stored condition and has saved it as b
C32_Witness ==
    \E c \in scr :
        /\ c.method = "screen"
        /\ c.params.load = Name_a
        /\ c.params.save = Name_b
        /\ c.params.conditions = <<>>
        /\ c.outcome.kind = "return"
        /\ c.outcome.value.conditions = <<Cond_PER>>
        /\ c.fetched = <<"KOSPI">>
        /\ Stored(screens, Name_b).value[T_conditions] = <<Cond_PER>>

\* C33: the files of the saved screens change only by a save that succeeds,
\* save_screen or a screen call with a save name, and then only the file of
\* that name; every other call, and every call that ends in an error,
\* leaves every file as it was, and no file ever goes away
C33_OnlySavesChangeScreens ==
    [][\A c \in scr' :
          LET saves == /\ c.outcome.kind = "return"
                       /\ \/ c.method = "save_screen"
                          \/ c.method = "screen" /\ c.params.save # <<>>
              name == IF c.method = "screen" THEN c.params.save
                      ELSE c.params.name
          IN /\ DOMAIN screens \subseteq DOMAIN screens'
             /\ saves =>
                  /\ DOMAIN screens' = DOMAIN screens \cup {name}
                  /\ \A n \in DOMAIN screens \ {name} :
                        screens'[n] = screens[n]
             /\ ~saves => screens' = screens
      ]_vars

\* the code of the first envelope check a request line fails, in the order
\* JSON parse, jsonrpc version, method presence, registry lookup; 0 when it
\* passes them all
FirstFailingCheck(line, registry) ==
    IF ~Parsed(line) THEN ParseError
    ELSE IF line.shape # "object" \/ line.jsonrpc # "2.0" THEN InvalidRequest
    ELSE IF line.method \in {Absent, EmptyStr} THEN InvalidRequest
    ELSE IF line.method \notin DOMAIN registry THEN MethodNotFound
    ELSE 0

\* C34: a request line that fails an envelope check is answered with the
\* error code of the first check it fails (parse, then jsonrpc version, then
\* method presence, then registry lookup), and no handler runs for it
C34_FirstFailingCheckDecides ==
    \A e \in lastEx :
        (e.req.shape # "toolong" /\ FirstFailingCheck(e.req, methods) # 0) =>
            /\ e.handler = {}
            /\ \E r \in e.resp :
                  /\ IsError(r)
                  /\ r.error.code = FirstFailingCheck(e.req, methods)

\* C35: the parser never returns a triple whose factor is neither a column
\* of the table nor resolved through the alias table: a parse_conditions
\* call given such a condition ends in a validation error
C35_ParserRejectsUnknownFactor ==
    \A c \in scr :
        c.method = "parse_conditions" =>
            /\ c.outcome.kind = "return" =>
                  \A i \in DOMAIN c.outcome.value.parsed :
                      c.outcome.value.parsed[i].factor \in Columns
            /\ (\E i \in DOMAIN c.params.conditions :
                    c.params.conditions[i] \in Unresolvable) =>
                  /\ c.outcome.kind = "rpcerr"
                  /\ c.outcome.code \in ValidationCodes

\* the value a comes strictly before the value b in a column sorted
\* ascending or descending; a missing value comes before none
OrderedBefore(a, b, ascending) ==
    /\ a # NaN
    /\ \/ b = NaN
       \/ b # NaN /\ (IF ascending THEN Less(a, b) ELSE Less(b, a))

\* C36: the rows a screen call returns are as many as the limit allows of
\* the rows that pass the conditions. When sort_by names a column they are
\* in the order of that column, ascending for "asc" and descending
\* otherwise, and no row left out comes before a row returned; when it
\* names none they are the first rows in the order of the table, and the
\* call ends as the call without sort_by ends
C36_SortedThenTruncated ==
    \A c \in scr :
        c.method = "screen" =>
            LET by == c.params.sort_by
                sorts == by # <<>> /\ by \in Columns
                ascending == c.params.sort_order = "asc"
            IN /\ ~sorts =>
                    c.outcome.kind = Screen(krx, screens,
                                            [c.params EXCEPT !.sort_by = <<>>],
                                            now).outcome.kind
               /\ c.outcome.kind = "return" =>
                    LET result == c.outcome.value
                        filtered == Matching(TableOf(krx, c.params),
                                             result.parsed)
                        n == IF c.params.limit < Len(filtered)
                                THEN c.params.limit ELSE Len(filtered)
                        Row(i) == CHOOSE k \in DOMAIN filtered :
                                     filtered[k].ticker =
                                        result.results[i].ticker
                        Key(k) == filtered[k].cols[by]
                    IN /\ Len(result.results) = n
                       /\ \A i \in 1..n :
                             \E k \in DOMAIN filtered :
                                filtered[k].ticker = result.results[i].ticker
                       /\ ~sorts => \A i \in 1..n : Row(i) = i
                       /\ sorts =>
                            /\ \A i, j \in 1..n :
                                  i < j =>
                                    /\ Row(i) # Row(j)
                                    /\ ~OrderedBefore(Key(Row(j)),
                                                      Key(Row(i)), ascending)
                            /\ \A k \in DOMAIN filtered :
                                  (\A i \in 1..n : Row(i) # k) =>
                                    \A i \in 1..n :
                                       ~OrderedBefore(Key(k), Key(Row(i)),
                                                      ascending)

\* C36 witness: of the four companies of both markets, sorted by return on
\* equity in descending order and limited to two, the call returns C and K,
\* which are the third and the fourth row of the table
C36_Witness ==
    \E c \in scr :
        /\ c.method = "screen"
        /\ c.params.sort_by = T_ROE
        /\ c.params.sort_order = "desc"
        /\ c.params.limit = 2
        /\ c.outcome.kind = "return"
        /\ c.outcome.value.totalCount = 4
        /\ Len(c.outcome.value.results) = 2
        /\ c.outcome.value.results[1].ticker = "C"
        /\ c.outcome.value.results[2].ticker = "K"


\* ------------------------------------- the factor engine: momentum windows
\* the fetch of a ticker's bars raises
NoBars == [kind |-> "raise", message |-> "fetch failed"]

\* a ticker listed for that many trading days, at 100 on all but the last,
\* on which it has gained r percent
Listed(bars, r) ==
    [kind |-> "frame",
     close |-> [i \in 1..bars |-> IF i = bars THEN 100 + r ELSE 100]]

\* a market with these histories, the tickers numbered in the order of the
\* ticker list
Universe(histories) ==
    [tickers |-> [i \in DOMAIN histories |-> i], ohlcv |-> histories]

\* the markets the calls are made on: one without tickers; one whose nine
\* tickers have one bar less than a window or just the window; one of 102
\* tickers whose last two alone have a long history; and one in which every
\* fetch fails or comes back short
Universes ==
    {Universe(<<>>),
     Universe(<<NoBars, Listed(19, 2), Listed(20, 3), Listed(59, 1),
                Listed(60, 1), Listed(119, 4), Listed(120, 0),
                Listed(239, 3), Listed(240, 1)>>),
     Universe([i \in 1..102 |->
                  IF i = 1 THEN NoBars
                  ELSE IF i = 2 THEN Listed(19, 1)
                  ELSE IF i > 100 THEN Listed(240, 2)
                  ELSE Listed(20, i % 4)]),
     Universe(<<NoBars, Listed(5, 1), NoBars>>)}

\* FactorBridge._calculate_momentum_factor on the prices of a market: the
\* window is looked up before anything is fetched
CalculateMomentum(factor, universe) ==
    IF factor \notin {"MOM_1M", "MOM_3M", "MOM_6M", "MOM_12M"}
        THEN [fetched |-> 0, outcome |-> _calculate_momentum_factor(factor, <<>>)]
    ELSE With(MomentumColumn(factor, universe), LAMBDA column :
           [fetched |-> Len(column),
            outcome |-> _calculate_momentum_factor(factor, column)])

\* one computation of a momentum factor
calculate_momentum(params) ==
    \E r \in {CalculateMomentum(params.factor, prices[params.market])} :
        /\ momentum' = {[factor |-> params.factor, market |-> params.market,
                         fetched |-> r.fetched, outcome |-> r.outcome]}
        /\ UNCHANGED <<bridgeVars, engineVars, screenerVars, prices>>

MomentumParams ==
    [factor : {"MOM_1M", "MOM_3M", "MOM_6M", "MOM_12M", "MOM_2M"},
     market : {"KOSPI", "KOSDAQ"}]

MomentumSpecInit ==
    /\ BridgeInit
    /\ EngineInit({NoData})
    /\ ScreenerInit({NoMarketData})
    /\ MomentumInit([KOSPI : Universes, KOSDAQ : Universes])

MomentumNext == \E p \in MomentumParams : calculate_momentum(p)

MomentumSpec == MomentumSpecInit /\ [][MomentumNext]_vars

\* the windows of the momentum factors as the claim gives them
Window ==
    [MOM_1M |-> 20, MOM_3M |-> 60, MOM_6M |-> 120, MOM_12M |-> 240]

\* the ticker at place i of the list is among the first hundred, its fetch
\* succeeds and returns at least as many bars as the window of the factor
Qualifies(universe, i, factor) ==
    /\ i <= 100
    /\ universe.ohlcv[universe.tickers[i]].kind = "frame"
    /\ Len(get_market_ohlcv(universe.ohlcv[universe.tickers[i]],
                            Window[factor]).close) >= Window[factor]

\* C37: a momentum computation returns exactly the tickers that qualify:
\* those among the first 100 of the list whose fetch succeeded with at
\* least as many bars as the window. It fails, with the missing-data
\* error, exactly when none qualifies
C37_MomentumKeepsQualifying ==
    \A c \in momentum :
        c.factor \in {"MOM_1M", "MOM_3M", "MOM_6M", "MOM_12M"} =>
            LET universe == prices[c.market]
                qualifying == {universe.tickers[i] :
                                  i \in {j \in DOMAIN universe.tickers :
                                            Qualifies(universe, j, c.factor)}}
            IN /\ c.fetched <= 100
               /\ qualifying = {} =>
                     /\ c.outcome.kind = "rpcerr"
                     /\ c.outcome.code = 1004
               /\ qualifying # {} =>
                     /\ c.outcome.kind = "return"
                     /\ {c.outcome.value[i].ticker :
                            i \in DOMAIN c.outcome.value} = qualifying
                     /\ Len(c.outcome.value) = Cardinality(qualifying)

\* C37 witness: on the market of 102 tickers the one-month factor returns
\* the 98 tickers from the third to the hundredth
C37_Witness ==
    \E c \in momentum :
        /\ c.factor = "MOM_1M"
        /\ Len(prices[c.market].tickers) = 102
        /\ c.fetched = 100
        /\ c.outcome.kind = "return"
        /\ {c.outcome.value[i].ticker : i \in DOMAIN c.outcome.value} = 3..100


\* ----------------------------------------- the factor engine: cache frame
\* the shim stops returning data
UpstreamOutage ==
    /\ upstream # NoData
    /\ upstream' = NoData
    /\ UNCHANGED <<now, files, thr, op, bridgeVars, screenerVars,
                   momentumVars>>

\* the calls of one client for two keys, with and without refresh
FrameParams ==
    [factor : {"PER"}, market : {"KOSPI"}, date : {"20240102"},
     refresh : BOOLEAN]
        \cup [factor : {"MOM_1M"}, market : {"KOSPI"}, date : {"20240102"},
              refresh : {FALSE}]

\* one client calling calculate_factor for two keys while time passes and
\* the shim has an outage
FrameNext ==
    \/ \E p \in FrameParams : calculate_factor(1, p)
    \/ CheckCache(1)
    \/ ReadCache(1)
    \/ Compute(1)
    \/ OpenCache(1)
    \/ WriteCache(1)
    \/ TimePasses
    \/ UpstreamOutage

FrameSpec == SeqInit /\ [][FrameNext]_vars

\* the entry of a path: the file, or nothing
EntryOf(fs, path) == IF path \in DOMAIN fs THEN <<fs[path]>> ELSE <<>>

\* the paths of the keys calls are made for
FramePaths ==
    {_get_cache_path(p.factor, p.market, p.date) : p \in FrameParams}

\* C38: the entry of a key changes only by the write of a computation for
\* that key, which then returns. A call that finds the entry less than 24
\* hours old and is not told to refresh does not write it, a call that ends
\* in an error has written nothing, no step removes an entry, and a call
\* for another key leaves it as it is
C38_CacheChangesOnlyByRecompute ==
    [][/\ DOMAIN files \subseteq DOMAIN files'
       /\ \A path \in FramePaths :
            EntryOf(files', path) # EntryOf(files, path) =>
                \E t \in Threads :
                    /\ PathOf(thr[t]) = path
                    /\ thr[t].pc \in {"open", "write1", "write2"}
                    /\ thr'[t].pc = "done" =>
                          \A o \in thr'[t].outcome : o.kind = "return"
                    /\ ~thr[t].params.refresh =>
                          ~(/\ path \in DOMAIN files
                            /\ thr[t].pc = "open"
                            /\ (now - files[path].mtime) * TickHours < 24)
       /\ \A t \in Threads :
            /\ (thr[t].pc # "done" /\ thr'[t].pc = "done"
                    /\ \E o \in thr'[t].outcome : o.kind # "return") =>
                  /\ files' = files
                  /\ "write" \notin thr'[t].io
            /\ thr[t].pc \in {"check", "read"} => files' = files
      ]_vars

\* C38 witness: a refresh call for a key has just ended in the missing-data
\* error, and the entry written for the key a tick before is still whole
C38_Witness ==
    \E t \in Threads :
        /\ thr[t].pc = "done"
        /\ thr[t].params.refresh
        /\ \E o \in thr[t].outcome : o.kind = "rpcerr" /\ o.code = 1004
        /\ PathOf(thr[t]) \in DOMAIN files
        /\ Complete(files[PathOf(thr[t])])
        /\ files[PathOf(thr[t])].mtime < thr[t].began

\* the weight of a factor after normalisation, as a fraction: its share of
\* the sum of the weights given, or an equal share when none is given
NormalisedWeight(params, f) ==
    IF DOMAIN params.weights = {}
        THEN <<1, Cardinality(Members(params.factors))>>
    ELSE <<params.weights[f], SumOver(params.weights, DOMAIN params.weights)>>

\* C39: a calculate_composite call with a non-empty factor list never fails
\* on its weights, and once every requested factor has returned its scores,
\* it returns, with every ticker that all of them have scored in
\* composite_scores, as the sum of its scores times the normalised weights
C39_EveryFullTickerScored ==
    \A t \in Threads :
        (op[t].pc = "done" /\ op[t].name = "calculate_composite"
                /\ op[t].params.factors # <<>>) =>
            \A o \in op[t].outcome :
                LET factors == op[t].params.factors
                    all_scores == op[t].acc
                IN /\ o.kind = "raise" =>
                        o.message \notin {"ZeroDivisionError", "KeyError"}
                   /\ Members(factors) \subseteq DOMAIN all_scores =>
                        /\ o.kind = "return"
                        /\ \A k \in DOMAIN all_scores[factors[1]] :
                              (\A f \in Members(factors) :
                                    k \in DOMAIN all_scores[f]) =>
                                 /\ k \in DOMAIN o.value.composite_scores
                                 /\ \A i \in DOMAIN factors :
                                       o.value.composite_scores[k][i] =
                                          <<all_scores[factors[i]][k],
                                            NormalisedWeight(op[t].params,
                                                             factors[i])>>

\* C40: every row returned by screen carries a value for each factor named
\* in the conditions: a row whose value for such a factor is missing has
\* passed none of them, whatever the operator
C40_ReturnedRowsHaveValues ==
    \A c \in scr :
        (c.method = "screen" /\ c.outcome.kind = "return") =>
            LET result == c.outcome.value
            IN \A i \in DOMAIN result.results :
                  \A j \in DOMAIN result.parsed :
                     result.parsed[j].factor # T_name =>
                        result.parsed[j].factor \in
                           DOMAIN result.results[i].values

====
